---- MODULE Spec2Model ----
(***************************************************************************)
(* Model of the storyboard / prompt generation pipeline: the App           *)
(* component's state and handlers (src/unnamed/part_000), the retry        *)
(* wrapper safeGenerateContent and the two generation services             *)
(* (src/services/geminiService.ts), and the commands the components        *)
(* enable (src/components).                                                *)
(*                                                                         *)
(* One action is one run-to-completion piece of JavaScript: an event       *)
(* handler, or the continuation of an async function from one await to    *)
(* the next.  All setState calls of such a piece are applied together.     *)
(***************************************************************************)
EXTENDS Integers, Sequences, FiniteSets, TLC

\* ------------------------------------------------------------------ bounds
MaxLive == 2        \* async invocations (queue runs, submissions) alive at once
MaxQuotaErrors == 1 \* quota errors the upstream answers the App with in one behaviour
MaxCalls == 2       \* safeGenerateContent calls made by the retry harness
MaxRunQuotaErrors == 4 \* quota errors the upstream answers the runs of SpecQueue with
MaxEdits == 3       \* edits of the script and the settings in one behaviour

\* ------------------------------------------------------- program constants
maxRetries == 3
InitialDelay == 2000
PauseMs == 500
ChunkSize == 4

\* --------------------------------------------------------------- AppState
IDLE == "IDLE"
GENERATING_STORYBOARD == "GENERATING_STORYBOARD"
REVIEW_STORYBOARD == "REVIEW_STORYBOARD"
GENERATING_PROMPTS == "GENERATING_PROMPTS"
VIEW_PROMPTS == "VIEW_PROMPTS"

AppState ==
  {IDLE, GENERATING_STORYBOARD, REVIEW_STORYBOARD, GENERATING_PROMPTS, VIEW_PROMPTS}

\* null for an object-valued state cell: the empty sequence; a value v is <<v>>
Null == <<>>
Some(v) == <<v>>
\* null for currentGroupId (group ids are 1-based)
NoGroup == 0
\* null for the error message
NoError == "null"
ScriptError == "script generation failed, please retry"

\* ------------------------------------------------------------------- data
Shot(k) ==
  [id |-> k, description |-> "description", voiceover |-> "voiceover", movement |-> "movement"]

Group(g) ==
  [id |-> g, range |-> <<(g - 1) * ChunkSize + 1, g * ChunkSize>>, narrative |-> "narrative"]

Settings ==
  [overview |-> "overview", style |-> "style", characters |-> <<>>, scenes |-> <<>>]

BundleKeys == {"script", "groups", "settings"}

\* a StoryboardData object with nShots shots and nGroups groups; `present` is
\* the set of its own top-level keys
StoryboardData(nShots, nGroups) ==
  [present |-> BundleKeys,
   script |-> [k \in 1..nShots |-> Shot(k)],
   groups |-> [g \in 1..nGroups |-> Group(g)],
   settings |-> Settings]

\* the object {} where a StoryboardData is expected
EmptyBundle ==
  [present |-> {}, script |-> <<>>, groups |-> <<>>, settings |-> Settings]

ImageKeys ==
  {"shot", "subject", "environment", "lighting", "camera", "colorGrade", "style", "quality"}

TopKeys == {"groupId", "imagePrompts", "cameraPrompts"}

\* a PromptData object: `present` is the set of its own top-level keys;
\* cameraPrompts carries the origin of the text (0: imported, 1: generated)
PromptData(g, origin) ==
  [present |-> TopKeys, groupId |-> g,
   imagePrompts |-> [k \in ImageKeys |-> "generated"], cameraPrompts |-> origin]

\* the object {}
EmptyObject ==
  [present |-> {}, groupId |-> 0,
   imagePrompts |-> [k \in ImageKeys |-> "undefined"], cameraPrompts |-> 0]

\* Record<number, PromptData> with no keys
EmptyPrompts == [g \in {} |-> EmptyObject]

\* {...prev, [key]: value}
Spread(prev, key, value) ==
  [g \in (DOMAIN prev) \cup {key} |-> IF g = key THEN value ELSE prev[g]]

GroupIds(groups) == {groups[k].id : k \in 1..Len(groups)}

Min(a, b) == IF a < b THEN a ELSE b
Max(a, b) == IF a > b THEN a ELSE b

\* Array.prototype.slice(start, end): 0-based, end excluded, negative indices
\* count from the end, both clamped to the array
Slice(s, start, end) ==
  LET from == IF start < 0 THEN Max(Len(s) + start, 0) ELSE Min(start, Len(s))
      to == IF end < 0 THEN Max(Len(s) + end, 0) ELSE Min(end, Len(s))
  IN SubSeq(s, from + 1, to)

\* a script of two groups whose group list is not in the order of the ids
SwappedGroups ==
  [StoryboardData(8, 2) EXCEPT !.groups = <<Group(2), Group(1)>>]


\* ------------------------------------------------ upstream call outcomes
\* error messages are sequences of characters, so that String.includes is a
\* substring search
Msg429 == <<"H", "T", "T", "P", " ", "4", "2", "9">>
MsgQuota == <<"o", "v", "e", "r", " ", "q", "u", "o", "t", "a">>
MsgExhausted ==
  <<"R", "E", "S", "O", "U", "R", "C", "E", "_", "E", "X", "H", "A", "U", "S", "T", "E", "D">>
MsgNetwork == <<"n", "e", "t", "w", "o", "r", "k">>
MsgQuotaUpper == <<"Q", "U", "O", "T", "A">>
NoMessage == <<>>

\* an error object: status and code are 0 when the property is undefined
Error(name, status, code, message) ==
  [name |-> name, status |-> status, code |-> code, message |-> message]

NoErrorObject == Error("none", 0, 0, NoMessage)

Errors ==
  {Error("status429", 429, 0, NoMessage),
   Error("code429", 0, 429, NoMessage),
   Error("message429", 0, 0, Msg429),
   Error("quota", 0, 0, MsgQuota),
   Error("exhausted", 0, 0, MsgExhausted),
   Error("network", 500, 500, MsgNetwork),
   Error("QUOTA", 403, 0, MsgQuotaUpper),
   Error("bare", 0, 0, NoMessage)}

ApiKeyError == Error("API_KEY is not set", 0, 0, <<"A", "P", "I", "_", "K", "E", "Y">>)
FallbackError == Error("API call failed after max retries", 0, 0, <<"m", "a", "x">>)

\* String.prototype.includes
Includes(s, sub) ==
  \E k \in 0..(Len(s) - Len(sub)) : SubSeq(s, k + 1, k + Len(sub)) = sub

\* variant: every HTTP error status counts as a quota error
isQuotaErrorAnyStatus(error) ==
  \/ error.status >= 400
  \/ error.code = 429
  \/ /\ error.message # NoMessage
     /\ \/ Includes(error.message, <<"4", "2", "9">>)
        \/ Includes(error.message, <<"q", "u", "o", "t", "a">>)
        \/ Includes(error.message, MsgExhausted)

isQuotaError(error) ==
  \/ error.status = 429
  \/ error.code = 429
  \/ /\ error.message # NoMessage
     /\ \/ Includes(error.message, <<"4", "2", "9">>)
        \/ Includes(error.message, <<"q", "u", "o", "t", "a">>)
        \/ Includes(error.message, MsgExhausted)

\* what ai.models.generateContent does with one attempt: resolves with a
\* response whose text is `text`, or rejects with `error`
Resolved(text) == [ok |-> TRUE, text |-> text, error |-> NoErrorObject]
Rejected(error) == [ok |-> FALSE, text |-> "", error |-> error]
NoResult == Rejected(NoErrorObject)

\* response texts: a JSON document of the expected shape, the empty text,
\* and a text JSON.parse rejects
Texts == {"json", "", "garbage"}

Responses == {Resolved(t) : t \in Texts} \cup {Rejected(e) : e \in Errors}

\* the outcomes the App model draws from: every text, one error that
\* isQuotaError accepts and one it rejects
AppResponses ==
  {Resolved(t) : t \in Texts}
    \cup {Rejected(Error("status429", 429, 0, NoMessage)),
          Rejected(Error("network", 500, 500, MsgNetwork))}

\* ------------------------------------------------- safeGenerateContent
\* One invocation of safeGenerateContent: pc is where it stands, i and delay
\* are its locals, attempts counts the calls of ai.models.generateContent it
\* has made, waited lists the backoff delays it has awaited.
NoCall ==
  [pc |-> "none", i |-> 0, delay |-> 0, attempts |-> 0, waited |-> <<>>, result |-> NoResult]

\* entry: getAI(), the locals, and the first attempt
SGC_Start(hasKey) ==
  IF hasKey
  THEN [pc |-> "inflight", i |-> 0, delay |-> InitialDelay, attempts |-> 1,
        waited |-> <<>>, result |-> NoResult]
  ELSE [pc |-> "thrown", i |-> 0, delay |-> 0, attempts |-> 0,
        waited |-> <<>>, result |-> Rejected(ApiKeyError)]

\* variant: the retry test is off by one
ShouldRetryOnceMore(error, i) == isQuotaError(error) /\ i <= maxRetries

\* may the catch block retry?
ShouldRetry(error, i) == isQuotaError(error) /\ i < maxRetries

\* the attempt in flight settles
SGC_OnResponse(c, resp) ==
  IF resp.ok
  THEN [c EXCEPT !.pc = "returned", !.result = resp]
  ELSE IF ShouldRetry(resp.error, c.i)
       THEN [c EXCEPT !.pc = "backoff", !.waited = Append(@, c.delay)]
       ELSE [c EXCEPT !.pc = "thrown", !.result = resp]

\* variant: the loop counter is not advanced
SGC_AfterBackoffNoCount(c) ==
  [c EXCEPT !.pc = "inflight", !.delay = @ * 2, !.attempts = @ + 1]

\* variant: the delay is not doubled
SGC_AfterBackoffSameDelay(c) ==
  IF c.i + 1 < maxRetries + 1
  THEN [c EXCEPT !.pc = "inflight", !.i = @ + 1, !.attempts = @ + 1]
  ELSE [c EXCEPT !.pc = "thrown", !.i = @ + 1, !.result = Rejected(FallbackError)]

\* the backoff timer fires: delay *= 2; continue; i++; the loop test; the
\* next attempt
SGC_AfterBackoff(c) ==
  IF c.i + 1 < maxRetries + 1
  THEN [c EXCEPT !.pc = "inflight", !.i = @ + 1, !.delay = @ * 2, !.attempts = @ + 1]
  ELSE [c EXCEPT !.pc = "thrown", !.i = @ + 1, !.delay = @ * 2,
                 !.result = Rejected(FallbackError)]

\* ------------------------------------------------------- cleanJsonString
\* texts are sequences of characters
\* the character U+0060
Backtick == "backtick"
Fence == <<Backtick, Backtick, Backtick>>
\* characters String.prototype.trim strips; JSON.parse skips only the first two
JsonWhitespace == {" ", "\n"}
TrimWhitespace == JsonWhitespace \cup {"nbsp"}

RECURSIVE TrimStart(_, _)
TrimStart(s, ws) ==
  IF s # <<>> /\ Head(s) \in ws THEN TrimStart(Tail(s), ws) ELSE s

RECURSIVE TrimEnd(_, _)
TrimEnd(s, ws) ==
  IF s # <<>> /\ s[Len(s)] \in ws THEN TrimEnd(SubSeq(s, 1, Len(s) - 1), ws) ELSE s

\* String.prototype.trim
Trim(s) == TrimEnd(TrimStart(s, TrimWhitespace), TrimWhitespace)

StartsWith(s, prefix) == Len(s) >= Len(prefix) /\ SubSeq(s, 1, Len(prefix)) = prefix
EndsWith(s, suffix) ==
  Len(s) >= Len(suffix) /\ SubSeq(s, Len(s) - Len(suffix) + 1, Len(s)) = suffix

ToLower(c) ==
  CASE c = "J" -> "j" [] c = "S" -> "s" [] c = "O" -> "o" [] c = "N" -> "n"
    [] OTHER -> c

Lower(s) == [k \in 1..Len(s) |-> ToLower(s[k])]

\* variant: the language tag is matched case-sensitively
StripLeadingFenceCaseSensitive(s) ==
  IF ~StartsWith(s, Fence) THEN s
  ELSE IF StartsWith(s, Fence \o <<"j", "s", "o", "n">>)
       THEN SubSeq(s, 8, Len(s))
       ELSE SubSeq(s, 4, Len(s))

\* s.replace(/^```(json)?/i, "")
StripLeadingFence(s) ==
  IF ~StartsWith(s, Fence) THEN s
  ELSE IF StartsWith(Lower(s), Fence \o <<"j", "s", "o", "n">>)
       THEN SubSeq(s, 8, Len(s))
       ELSE SubSeq(s, 4, Len(s))

\* s.replace(/```$/, "")
StripTrailingFence(s) ==
  IF EndsWith(s, Fence) THEN SubSeq(s, 1, Len(s) - 3) ELSE s

cleanJsonString(text) ==
  IF text = <<>> THEN <<"{", "}">>
  ELSE LET clean == Trim(text)
       IN IF StartsWith(clean, Fence)
          THEN StripTrailingFence(StripLeadingFence(clean))
          ELSE clean

\* the JSON texts of the model: an object, an array, a number, and a string
\* that holds a fence
Payloads ==
  {<<"{", "}">>, <<"[", "1", "]">>, <<"1">>,
   <<"\"", Backtick, Backtick, Backtick, "\"">>}

\* JSON.parse: whitespace around the value is skipped; ok is FALSE when it throws
JsonParse(s) ==
  LET t == TrimEnd(TrimStart(s, JsonWhitespace), JsonWhitespace)
  IN IF t \in Payloads THEN [ok |-> TRUE, value |-> t] ELSE [ok |-> FALSE, value |-> <<>>]

\* ------------------------------------------------------------------ state
VARIABLES
  appState,        \* useState<AppState>
  storyboard,      \* useState<StoryboardData | null>
  prompts,         \* useState<Record<number, PromptData>>
  currentGroupId,  \* useState<number | null>
  error,           \* useState<string | null>
  batchProgress,   \* useState<{current, total} | null>
  mounted,         \* is the component tree still mounted (no render has thrown)
  tasks,           \* the live invocations of runGenerationQueue and handleIdeaSubmit
  pending,         \* the upstream attempts in flight
  quotaErrors,     \* quota errors the upstream has answered the App with
  sgc,             \* retry harness: the safeGenerateContent call under test
  sgcLog,          \* retry harness: the outcomes of its attempts so far
  sgcCalls,        \* retry harness: calls made
  sgcKey,          \* retry harness: is process.env.API_KEY set
  quotaBudget,     \* how many quota errors the upstream may answer the App with
  cleanInput,      \* sanitizer harness: the response text under test, in its parts
  cleanOutput,     \* sanitizer harness: what parsing the sanitized texts gave
  activeTab,       \* StoryboardView: useState<'script' | 'groups' | 'settings'>
  edits,           \* edits of the script and the settings made so far
  exported         \* the object handleExportJSON last wrote to a file, if any

appVars == <<appState, storyboard, prompts, currentGroupId, error, batchProgress, activeTab>>
taskVars == <<tasks, pending, quotaErrors>>
cleanVars == <<cleanInput, cleanOutput>>
viewVars == <<edits>>
\* what no step of the phase machine, the queue or the retry harness changes
envVars == <<quotaBudget, cleanVars, viewVars, exported>>
harnessVars == <<sgc, sgcLog, sgcCalls, sgcKey, quotaBudget, cleanVars, exported>>
sgcVars == <<sgc, sgcLog, sgcCalls, sgcKey, envVars>>
vars == <<appVars, mounted, taskVars, sgcVars>>

\* a slot of `tasks` that holds no invocation
Free == [kind |-> "free"]

AppInit ==
  /\ appState = IDLE
  /\ storyboard = Null
  /\ prompts = EmptyPrompts
  /\ currentGroupId = NoGroup
  /\ error = NoError
  /\ batchProgress = Null
  /\ mounted = TRUE
  /\ tasks = [k \in 1..MaxLive |-> Free]
  /\ pending = {}
  /\ quotaErrors = 0
  /\ sgc = NoCall
  /\ sgcLog = <<>>
  /\ sgcCalls = 0
  /\ activeTab = "groups"
  /\ edits = 0
  /\ exported = Null

\* the sanitizer harness is not in use
CleanIdle == cleanInput = <<>> /\ cleanOutput = <<>>

\* the application, deployed with its API key
Init == AppInit /\ sgcKey = TRUE /\ quotaBudget = MaxQuotaErrors /\ CleanIdle

\* the retry harness, with or without the key
RetryInit ==
  AppInit /\ sgcKey \in BOOLEAN /\ quotaBudget = MaxQuotaErrors /\ CleanIdle

\* ---------------------------------------------------------- retry harness
\* A caller that invokes safeGenerateContent, one call after the other, against
\* an upstream that answers each attempt with any response.
RetryCall ==
  /\ sgc.pc \in {"none", "returned", "thrown"}
  /\ sgcCalls < MaxCalls
  /\ sgc' = SGC_Start(sgcKey)
  /\ sgcLog' = <<>>
  /\ sgcCalls' = sgcCalls + 1
  /\ UNCHANGED <<appVars, mounted, taskVars, sgcKey, envVars>>

RetryUpstream ==
  /\ sgc.pc = "inflight"
  /\ \E resp \in Responses :
       /\ sgc' = SGC_OnResponse(sgc, resp)
       /\ sgcLog' = Append(sgcLog, resp)
  /\ UNCHANGED <<appVars, mounted, taskVars, sgcCalls, sgcKey, envVars>>

RetryTimer ==
  /\ sgc.pc = "backoff"
  /\ sgc' = SGC_AfterBackoff(sgc)
  /\ UNCHANGED <<appVars, mounted, taskVars, sgcLog, sgcCalls, sgcKey, envVars>>

RetryNext == RetryCall \/ RetryUpstream \/ RetryTimer

SpecRetry == RetryInit /\ [][RetryNext]_vars

\* every attempt is answered and every backoff timer fires
SpecRetryFair ==
  RetryInit /\ [][RetryNext]_vars /\ WF_vars(RetryUpstream) /\ WF_vars(RetryTimer)

\* ============================================================= the App
\* --------------------------------------------------------------- rendering
\* Does rendering this state throw?  StoryboardView maps over data.groups
\* (its default tab), PromptDisplay maps over groups.
\* does the render throw with StoryboardView's tab `tab`, the phase a, the
\* bundle sb, the mapping p and the selected group c: StoryboardView maps over
\* the list of its tab, PromptDisplay over the groups, and it reads the fields
\* of the selected group's imagePrompts
RenderThrowsOn(tab, a, sb, p, c) ==
  /\ sb # Null
  /\ \/ /\ a = REVIEW_STORYBOARD
        /\ \/ tab = "groups" /\ "groups" \notin sb[1].present
           \/ tab = "script" /\ "script" \notin sb[1].present
           \/ tab = "settings" /\ "settings" \notin sb[1].present
     \/ /\ a \in {GENERATING_PROMPTS, VIEW_PROMPTS}
        /\ \/ "groups" \notin sb[1].present
           \/ /\ c # NoGroup
              /\ c \in DOMAIN p
              /\ "imagePrompts" \notin p[c].present

\* the tab of StoryboardView after a render in phase a with the bundle sb: the
\* component keeps its state while it stays on screen and is mounted anew,
\* on the tab 'groups', otherwise
TabAfter(a, sb) ==
  IF /\ appState = REVIEW_STORYBOARD /\ storyboard # Null
     /\ a = REVIEW_STORYBOARD /\ sb # Null
  THEN activeTab
  ELSE "groups"

RenderThrows(a, sb, p, c) == RenderThrowsOn(TabAfter(a, sb), a, sb, p, c)

\* The state updates of one piece of code, applied together, and the render
\* that follows.  A render that throws unmounts the tree; state updates of a
\* tree that is no longer mounted are dropped.
Commit(a, sb, p, c, e, b) ==
  IF mounted
  THEN /\ appState' = a
       /\ storyboard' = sb
       /\ prompts' = p
       /\ currentGroupId' = c
       /\ error' = e
       /\ batchProgress' = b
       /\ activeTab' = TabAfter(a, sb)
       /\ mounted' = ~RenderThrows(a, sb, p, c)
  ELSE UNCHANGED <<appVars, mounted>>

\* ------------------------------------------------------ what is on screen
IdeaInputEnabled == mounted /\ appState = IDLE
ResetShown == mounted /\ appState # IDLE
StoryboardViewShown == mounted /\ appState = REVIEW_STORYBOARD /\ storyboard # Null
PromptDisplayShown ==
  mounted /\ appState \in {VIEW_PROMPTS, GENERATING_PROMPTS} /\ storyboard # Null
isGenerating == appState = GENERATING_PROMPTS

\* ------------------------------------------------- the generation services
\* the options of the shot-count select
shotOptions == {4, 8, 12, 16, 20, 24, 28, 32, 36, 40}
\* the ones the model selects
ShotOptions == {n \in shotOptions : n <= 2 * ChunkSize}

\* the documents the upstream answers a storyboard request with
StoryboardDocs == {StoryboardData(n, n \div ChunkSize) : n \in ShotOptions}

\* JSON.parse(cleanJsonString(result.text || "{}")): ok is FALSE when it throws
ParseResponse(text, doc, emptyObject) ==
  IF text = "garbage" THEN [ok |-> FALSE, value |-> emptyObject]
  ELSE IF text = "" THEN [ok |-> TRUE, value |-> emptyObject]
  ELSE [ok |-> TRUE, value |-> doc]

\* an attempt in flight: the slot of the invocation that awaits it, the index
\* of the item it is for, and its number
Attempt(slot, item, n) == [slot |-> slot, item |-> item, attempt |-> n]

\* the slots
Slots == 1..MaxLive
FreeSlots == {k \in Slots : tasks[k].kind = "free"}
RunSlots == {k \in Slots : tasks[k].kind = "run"}
SubmitSlots == {k \in Slots : tasks[k].kind = "submit"}
NewSlot == CHOOSE k \in FreeSlots : \A j \in FreeSlots : k <= j

\* the attempts the invocation in a slot has in flight
Attempts(slot, task) ==
  IF task.kind # "free" /\ task.call.pc = "inflight"
  THEN {Attempt(slot, IF task.kind = "run" THEN task.i ELSE 0, task.call.attempts)}
  ELSE {}

\* --------------------------------------------------- runGenerationQueue
Progress(current, total) == Some([current |-> current, total |-> total])

Last(seq) == seq[Len(seq)]

\* the loop test for index i (0-based) and what follows it: the body up to the
\* await of the generation call, or the statements after the loop
\* variant: the slice starts one chunk further
groupShotsOffByOne(sb, group) ==
  Slice(sb[1].script, group.id * 4, group.id * 4 + 4)

\* the shots handed to generatePromptsForGroup for `group`
groupShots(sb, group) ==
  LET startIdx == (group.id - 1) * 4
  IN Slice(sb[1].script, startIdx, startIdx + 4)

LoopHead(run, i) ==
  IF i >= Len(run.groupsToProcess)
  THEN [run EXCEPT !.i = i, !.pc = "done", !.call = NoCall, !.timer = 0,
                   !.published = Append(@, Null)]
  ELSE IF "script" \notin run.storyboard[1].present
  THEN \* storyboard.script.slice throws: the catch, the progress update, the pause
       [run EXCEPT !.i = i, !.pc = "pause", !.call = NoCall, !.timer = PauseMs,
                   !.attempted = Append(@, run.groupsToProcess[i + 1].id),
                   !.published = Append(@, Progress(i + 1, Len(run.groupsToProcess)))]
  ELSE [run EXCEPT !.i = i, !.pc = "call", !.call = SGC_Start(TRUE), !.timer = 0,
                   !.groupShots = groupShots(run.storyboard, run.groupsToProcess[i + 1]),
                   !.attempted = Append(@, run.groupsToProcess[i + 1].id)]

\* the invocation, from its entry to its first await (or to its return)
NewRun(groupsToProcess, sb, p) ==
  LoopHead([kind |-> "run", groupsToProcess |-> groupsToProcess, storyboard |-> sb,
            i |-> 0, pc |-> "entry", call |-> NoCall, timer |-> 0, attempted |-> <<>>,
            groupShots |-> <<>>,
            published |-> <<Progress(0, Len(groupsToProcess))>>,
            succeeded |-> {},
            hadBefore |-> GroupIds(groupsToProcess) \cap DOMAIN p], 0)

\* variant: a failing item ends the loop
ItemSettledAborts(run, ok) ==
  [run EXCEPT !.i = IF ok THEN @ ELSE Len(run.groupsToProcess) - 1,
              !.pc = "pause", !.call = NoCall, !.timer = PauseMs,
              !.published = Append(@, Progress(run.i + 1, Len(run.groupsToProcess))),
              !.succeeded = IF ok THEN @ \cup {run.groupsToProcess[run.i + 1].id} ELSE @]

\* variant: progress counts the items that succeeded
ItemSettledCountsSuccesses(run, ok) ==
  [run EXCEPT !.pc = "pause", !.call = NoCall, !.timer = PauseMs,
              !.published = Append(@, Progress(IF ok THEN run.i + 1 ELSE run.i,
                                               Len(run.groupsToProcess))),
              !.succeeded = IF ok THEN @ \cup {run.groupsToProcess[run.i + 1].id} ELSE @]

\* variant: the promise of the pause is never resolved (no timer is set)
ItemSettledNoTimer(run, ok) ==
  [run EXCEPT !.pc = "pause", !.call = NoCall, !.timer = 0,
              !.published = Append(@, Progress(run.i + 1, Len(run.groupsToProcess))),
              !.succeeded = IF ok THEN @ \cup {run.groupsToProcess[run.i + 1].id} ELSE @]

\* variant: the next item's call starts at once, without the pause
ItemSettledNoPause(run, ok) ==
  LoopHead([run EXCEPT !.published =
                         Append(@, Progress(run.i + 1, Len(run.groupsToProcess))),
                       !.succeeded =
                         IF ok THEN @ \cup {run.groupsToProcess[run.i + 1].id} ELSE @],
           run.i + 1)

\* variant: no pause follows the last item, the run returns at once
ItemSettledSkipsLastPause(run, ok) ==
  IF run.i + 1 = Len(run.groupsToProcess)
  THEN [run EXCEPT !.pc = "done", !.call = NoCall, !.timer = 0,
                   !.published = Append(Append(@, Progress(run.i + 1, Len(run.groupsToProcess))),
                                        Null),
                   !.succeeded = IF ok THEN @ \cup {run.groupsToProcess[run.i + 1].id} ELSE @]
  ELSE [run EXCEPT !.pc = "pause", !.call = NoCall, !.timer = PauseMs,
                   !.published = Append(@, Progress(run.i + 1, Len(run.groupsToProcess))),
                   !.succeeded = IF ok THEN @ \cup {run.groupsToProcess[run.i + 1].id} ELSE @]

\* the rest of the loop body once the generation call has settled: the store
\* or the catch, the progress update, and the start of the pause
ItemSettled(run, ok) ==
  [run EXCEPT !.pc = "pause", !.call = NoCall, !.timer = PauseMs,
              !.published = Append(@, Progress(run.i + 1, Len(run.groupsToProcess))),
              !.succeeded = IF ok THEN @ \cup {run.groupsToProcess[run.i + 1].id} ELSE @]

\* the group a run is working on
CurrentGroup(run) == run.groupsToProcess[run.i + 1]

\* the slot of a run after a step of it: a run that has returned leaves it
Slot(run) == IF run.pc = "done" THEN Free ELSE run

\* runGenerationQueue(groupsToProcess), called by a handler that leaves the
\* phase a and the mapping p behind
runGenerationQueue(groupsToProcess, a, p) ==
  IF storyboard = Null
  THEN /\ Commit(a, storyboard, p, currentGroupId, error, batchProgress)
       /\ UNCHANGED taskVars
  ELSE LET run == NewRun(groupsToProcess, storyboard, p)
       IN IF run.pc = "done"
          THEN /\ Commit(VIEW_PROMPTS, storyboard, p, currentGroupId, error,
                         Last(run.published))
               /\ UNCHANGED taskVars
          ELSE /\ FreeSlots # {}
               /\ tasks' = [tasks EXCEPT ![NewSlot] = run]
               /\ pending' = pending \cup Attempts(NewSlot, run)
               /\ UNCHANGED quotaErrors
               /\ Commit(GENERATING_PROMPTS, storyboard, p, CurrentGroup(run).id,
                         error, Last(run.published))

\* the attempt `tok` of a run's generation call fails with the quota error
\* `resp` and is retried
PromptAttemptRetriesWith(tok, resp) ==
  LET run == tasks[tok.slot]
      c == SGC_OnResponse(run.call, resp)
  IN /\ run.kind = "run"
     /\ c.pc = "backoff"
     /\ quotaErrors < quotaBudget
     /\ quotaErrors' = quotaErrors + 1
     /\ tasks' = [tasks EXCEPT ![tok.slot].call = c]
     /\ pending' = pending \ {tok}
     /\ UNCHANGED <<appVars, mounted, sgcVars>>

PromptAttemptRetries ==
  \E tok \in pending, resp \in AppResponses : PromptAttemptRetriesWith(tok, resp)

\* a run's generation call settles with the answer `resp` to its attempt
\* `tok`: generatePromptsForGroup returns or throws, and the loop body runs on
\* to the pause
PromptItemSettlesWith(tok, resp) ==
  LET run == tasks[tok.slot]
      c == SGC_OnResponse(run.call, resp)
      group == CurrentGroup(run)
      data == IF c.pc = "returned"
              THEN ParseResponse(c.result.text, PromptData(group.id, 1), EmptyObject)
              ELSE [ok |-> FALSE, value |-> EmptyObject]
      run2 == ItemSettled(run, data.ok)
  IN /\ run.kind = "run"
     /\ c.pc \in {"returned", "thrown"}
     /\ tasks' = [tasks EXCEPT ![tok.slot] = run2]
     /\ pending' = (pending \ {tok}) \cup Attempts(tok.slot, run2)
     /\ Commit(appState, storyboard,
               IF data.ok THEN Spread(prompts, group.id, data.value) ELSE prompts,
               currentGroupId, error, Last(run2.published))
     /\ UNCHANGED <<quotaErrors, sgcVars>>

PromptItemSettles ==
  \E tok \in pending, resp \in AppResponses : PromptItemSettlesWith(tok, resp)

\* the 500 ms pause of the run in slot k ends: i++, and the next item or the
\* end of the run
PauseTimerFiresAt(k) ==
  LET run == LoopHead(tasks[k], tasks[k].i + 1)
  IN /\ tasks[k].kind = "run"
     /\ tasks[k].pc = "pause"
     /\ tasks[k].timer > 0
     /\ tasks' = [tasks EXCEPT ![k] = Slot(run)]
     /\ pending' = pending \cup Attempts(k, Slot(run))
     /\ IF run.pc = "done"
        THEN Commit(VIEW_PROMPTS, storyboard, prompts, currentGroupId, error,
                    Last(run.published))
        ELSE Commit(appState, storyboard, prompts, CurrentGroup(run).id, error,
                    batchProgress)
     /\ UNCHANGED <<quotaErrors, sgcVars>>

PauseTimerFires == \E k \in RunSlots : PauseTimerFiresAt(k)

\* the backoff timer of the generation call of the run in slot k fires: the
\* next attempt (or the throw after the loop, and then the catch of the queue)
PromptBackoffEndsAt(k) ==
  LET c == SGC_AfterBackoff(tasks[k].call)
      run == IF c.pc = "thrown"
             THEN ItemSettled(tasks[k], FALSE)
             ELSE [tasks[k] EXCEPT !.call = c]
  IN /\ tasks[k].kind = "run"
     /\ tasks[k].call.pc = "backoff"
     /\ tasks' = [tasks EXCEPT ![k] = run]
     /\ pending' = pending \cup Attempts(k, run)
     /\ Commit(appState, storyboard, prompts, currentGroupId, error,
               IF c.pc = "thrown" THEN Last(run.published) ELSE batchProgress)
     /\ UNCHANGED <<quotaErrors, sgcVars>>

PromptBackoffEnds == \E k \in RunSlots : PromptBackoffEndsAt(k)

\* ------------------------------------------------------ handleIdeaSubmit
\* IdeaInput.handleSubmit and handleIdeaSubmit up to the await
\* App.handleIdeaSubmit up to the await of generateStoryboard(idea, shotCount)
handleIdeaSubmitWith(idea, shotCount) ==
  LET sub == [kind |-> "submit", call |-> SGC_Start(TRUE), shotCount |-> shotCount]
  IN /\ FreeSlots # {}
     /\ tasks' = [tasks EXCEPT ![NewSlot] = sub]
     /\ pending' = pending \cup Attempts(NewSlot, sub)
     /\ Commit(GENERATING_STORYBOARD, storyboard, prompts, currentGroupId, NoError,
               batchProgress)
     /\ UNCHANGED <<quotaErrors, sgcVars>>

\* what the brief's text area may hold
Briefs == {<<>>, <<" ">>, <<"nbsp", "\n">>, <<"a">>, <<" ", "a", "\n">>}

\* variant: the brief is not trimmed
handleSubmitNoTrim(input, shotCount) ==
  /\ IdeaInputEnabled
  /\ IF input # <<>>
     THEN handleIdeaSubmitWith(input, shotCount)
     ELSE UNCHANGED vars

\* IdeaInput.handleSubmit, with the text area holding `input` and the select
\* `shotCount`
handleSubmit(input, shotCount) ==
  /\ IdeaInputEnabled
  /\ IF Trim(input) # <<>>
     THEN handleIdeaSubmitWith(input, shotCount)
     ELSE UNCHANGED vars

handleIdeaSubmit ==
  \E input \in Briefs, shotCount \in ShotOptions : handleSubmit(input, shotCount)

\* an attempt of generateStoryboard's call fails with a quota error and is retried
StoryboardAttemptRetries ==
  \E tok \in pending, resp \in AppResponses :
    LET sub == tasks[tok.slot]
        c == SGC_OnResponse(sub.call, resp)
    IN /\ sub.kind = "submit"
       /\ c.pc = "backoff"
       /\ quotaErrors < quotaBudget
       /\ quotaErrors' = quotaErrors + 1
       /\ tasks' = [tasks EXCEPT ![tok.slot].call = c]
       /\ pending' = pending \ {tok}
       /\ UNCHANGED <<appVars, mounted, sgcVars>>

\* variant: a failed generation stores what it got
SubmitSettledKeepsPartial(ok, data) ==
  IF ok
  THEN Commit(REVIEW_STORYBOARD, Some(data), prompts, currentGroupId, error, batchProgress)
  ELSE Commit(IDLE, Some(data), prompts, currentGroupId, ScriptError, batchProgress)

\* the continuation of handleIdeaSubmit after generateStoryboard has returned
\* `data` (ok) or thrown
SubmitSettled(ok, data) ==
  IF ok
  THEN Commit(REVIEW_STORYBOARD, Some(data), prompts, currentGroupId, error, batchProgress)
  ELSE Commit(IDLE, storyboard, prompts, currentGroupId, ScriptError, batchProgress)

\* generateStoryboard's call settles: it returns the parsed document or throws
StoryboardSettlesWith(tok, resp, doc) ==
  LET sub == tasks[tok.slot]
      c == SGC_OnResponse(sub.call, resp)
      data == IF c.pc = "returned"
              THEN ParseResponse(c.result.text, doc, EmptyBundle)
              ELSE [ok |-> FALSE, value |-> EmptyBundle]
  IN /\ sub.kind = "submit"
     /\ c.pc \in {"returned", "thrown"}
     /\ tasks' = [tasks EXCEPT ![tok.slot] = Free]
     /\ pending' = pending \ {tok}
     /\ SubmitSettled(data.ok, data.value)
     /\ UNCHANGED <<quotaErrors, sgcVars>>

StoryboardSettles ==
  \E tok \in pending, resp \in AppResponses, doc \in StoryboardDocs :
    StoryboardSettlesWith(tok, resp, doc)

\* the backoff timer of generateStoryboard's call fires
StoryboardBackoffEnds ==
  \E k \in SubmitSlots :
    LET c == SGC_AfterBackoff(tasks[k].call)
        sub == IF c.pc = "thrown" THEN Free ELSE [tasks[k] EXCEPT !.call = c]
    IN /\ tasks[k].call.pc = "backoff"
       /\ tasks' = [tasks EXCEPT ![k] = sub]
       /\ pending' = pending \cup Attempts(k, sub)
       /\ IF c.pc = "thrown"
          THEN SubmitSettled(FALSE, EmptyBundle)
          ELSE UNCHANGED <<appVars, mounted>>
       /\ UNCHANGED <<quotaErrors, sgcVars>>

\* ---------------------------------------------------- handleScriptUpload
\* the JSON objects a user may load: `present` is the set of the object's own
\* top-level keys, `bundle` is the object read as a StoryboardData
Bare(sb) ==
  [present |-> sb.present, storyboard |-> EmptyBundle, prompts |-> EmptyPrompts,
   bundle |-> sb]
Snapshot(sb, ids) ==
  [present |-> {"storyboard", "prompts"}, storyboard |-> sb,
   prompts |-> [g \in ids |-> PromptData(g, 0)],
   bundle |-> [EmptyBundle EXCEPT !.present = {"storyboard", "prompts"}]]
Wrapper(sb) ==
  [present |-> {"storyboard"}, storyboard |-> sb, prompts |-> EmptyPrompts,
   bundle |-> [EmptyBundle EXCEPT !.present = {"storyboard"}]]

\* the shape test of IdeaInput.handleScriptFileLoad
Accepted(json) ==
  \/ BundleKeys \subseteq json.present
  \/ "storyboard" \in json.present /\ "script" \in json.storyboard.present

JsonFiles ==
  {Bare(StoryboardData(8, 2)), Bare(StoryboardData(0, 0)), Bare(EmptyBundle),
   Snapshot(StoryboardData(8, 2), {1}), Snapshot(StoryboardData(8, 2), {1, 2}),
   Snapshot(EmptyBundle, {1}), Wrapper(StoryboardData(8, 2))}

\* variant: the import leaves the recorded error in place
handleScriptUploadKeepsError(data) ==
  /\ IdeaInputEnabled
  /\ IF Accepted(data)
     THEN IF {"storyboard", "prompts"} \subseteq data.present
          THEN Commit(REVIEW_STORYBOARD, Some(data.storyboard), data.prompts,
                      currentGroupId, error, batchProgress)
          ELSE Commit(REVIEW_STORYBOARD, Some(data.bundle), EmptyPrompts,
                      currentGroupId, error, batchProgress)
     ELSE UNCHANGED <<appVars, mounted>>
  /\ UNCHANGED <<taskVars, sgcVars>>

\* IdeaInput.handleScriptFileLoad (JSON file) and handleScriptUpload
handleScriptUploadWith(data) ==
  /\ IdeaInputEnabled
  /\ IF Accepted(data)
     THEN IF {"storyboard", "prompts"} \subseteq data.present
          THEN Commit(REVIEW_STORYBOARD, Some(data.storyboard), data.prompts,
                      currentGroupId, NoError, batchProgress)
          ELSE Commit(REVIEW_STORYBOARD, Some(data.bundle), EmptyPrompts,
                      currentGroupId, NoError, batchProgress)
     ELSE UNCHANGED <<appVars, mounted>>
  /\ UNCHANGED <<taskVars, sgcVars>>

handleScriptUpload == \E data \in JsonFiles : handleScriptUploadWith(data)

\* ------------------------------------------------ handleConfirmStoryboard
RECURSIVE FilterInverted(_, _)
\* variant: the test of the filter is inverted
FilterInverted(groups, p) ==
  IF groups = <<>> THEN <<>>
  ELSE (IF Head(groups).id \in DOMAIN p THEN <<Head(groups)>> ELSE <<>>)
       \o FilterInverted(Tail(groups), p)

RECURSIVE Filter(_, _)
\* groups.filter(g => !prompts[g.id])
Filter(groups, p) ==
  IF groups = <<>> THEN <<>>
  ELSE (IF Head(groups).id \in DOMAIN p THEN <<>> ELSE <<Head(groups)>>)
       \o Filter(Tail(groups), p)

\* variant: the first group is selected whether or not one is selected already
handleConfirmStoryboardSelectsFirst ==
  /\ StoryboardViewShown
  /\ IF Len(storyboard[1].groups) = 0
     THEN UNCHANGED <<appVars, mounted, taskVars>>
     ELSE LET missingGroups == Filter(storyboard[1].groups, prompts)
          IN IF Len(missingGroups) > 0
             THEN runGenerationQueue(missingGroups, VIEW_PROMPTS, prompts)
             ELSE /\ Commit(VIEW_PROMPTS, storyboard, prompts,
                            storyboard[1].groups[1].id, error, batchProgress)
                  /\ UNCHANGED taskVars
  /\ UNCHANGED sgcVars

handleConfirmStoryboard ==
  /\ StoryboardViewShown
  /\ IF Len(storyboard[1].groups) = 0
     THEN UNCHANGED <<appVars, mounted, taskVars>>
     ELSE LET missingGroups == Filter(storyboard[1].groups, prompts)
          IN IF Len(missingGroups) > 0
             THEN runGenerationQueue(missingGroups, VIEW_PROMPTS, prompts)
             ELSE /\ Commit(VIEW_PROMPTS, storyboard, prompts,
                            IF currentGroupId = NoGroup
                            THEN storyboard[1].groups[1].id
                            ELSE currentGroupId,
                            error, batchProgress)
                  /\ UNCHANGED taskVars
  /\ UNCHANGED sgcVars

\* ---------------------------------------------------- handleRegenerateAll
\* confirmed: what window.confirm returns
handleRegenerateAllWith(confirmed) ==
  /\ PromptDisplayShown
  /\ ~isGenerating
  /\ IF confirmed
     THEN runGenerationQueue(storyboard[1].groups, appState, EmptyPrompts)
     ELSE UNCHANGED <<appVars, mounted, taskVars>>
  /\ UNCHANGED sgcVars

handleRegenerateAll == \E confirmed \in BOOLEAN : handleRegenerateAllWith(confirmed)

\* -------------------------------------------------- handleRegenerateGroup
\* variant: the other groups' results are dropped
handleRegenerateGroupClears(groupId) ==
  /\ PromptDisplayShown
  /\ ~isGenerating
  /\ \E k \in 1..Len(storyboard[1].groups) :
       /\ storyboard[1].groups[k].id = groupId
       /\ \A j \in 1..(k - 1) : storyboard[1].groups[j].id # groupId
       /\ runGenerationQueue(<<storyboard[1].groups[k]>>, appState,
                             [g \in (DOMAIN prompts) \cap {groupId} |-> prompts[g]])
  /\ UNCHANGED sgcVars

handleRegenerateGroupWith(groupId) ==
  /\ PromptDisplayShown
  /\ ~isGenerating
  /\ \E k \in 1..Len(storyboard[1].groups) :
       \* find: the first group with the id of the button's group
       /\ storyboard[1].groups[k].id = groupId
       /\ \A j \in 1..(k - 1) : storyboard[1].groups[j].id # groupId
       /\ runGenerationQueue(<<storyboard[1].groups[k]>>, appState, prompts)
  /\ UNCHANGED sgcVars

\* one button for each group on screen
handleRegenerateGroup ==
  /\ PromptDisplayShown
  /\ \E groupId \in GroupIds(storyboard[1].groups) : handleRegenerateGroupWith(groupId)

\* ------------------------------------------------------ handleSelectGroup
handleSelectGroup ==
  /\ PromptDisplayShown
  /\ \E k \in 1..Len(storyboard[1].groups) :
       Commit(appState, storyboard, prompts, storyboard[1].groups[k].id, error,
              batchProgress)
  /\ UNCHANGED <<taskVars, sgcVars>>

\* ------------------------------------------------------------ handleReset
\* variant: the selection survives the reset
handleResetKeepsSelection(confirmed) ==
  /\ ResetShown
  /\ IF confirmed
     THEN Commit(IDLE, Null, EmptyPrompts, currentGroupId, error, batchProgress)
     ELSE UNCHANGED <<appVars, mounted>>
  /\ UNCHANGED <<taskVars, sgcVars>>

\* confirmed: what window.confirm returns
handleResetWith(confirmed) ==
  /\ ResetShown
  /\ IF confirmed
     THEN Commit(IDLE, Null, EmptyPrompts, NoGroup, error, batchProgress)
     ELSE UNCHANGED <<appVars, mounted>>
  /\ UNCHANGED <<taskVars, sgcVars>>

handleReset == \E confirmed \in BOOLEAN : handleResetWith(confirmed)

\* ------------------------------------------------ StoryboardView: editing
Tabs == {"script", "groups", "settings"}

setActiveTab(tab) ==
  /\ StoryboardViewShown
  /\ activeTab' = tab
  /\ mounted' = ~RenderThrowsOn(tab, appState, storyboard, prompts, currentGroupId)
  /\ UNCHANGED <<appState, storyboard, prompts, currentGroupId, error, batchProgress,
                 taskVars, harnessVars, edits>>

\* setStoryboard(prev => prev ? next : null) and the render that follows
UpdateStoryboard(next) ==
  Commit(appState, IF storyboard = Null THEN Null ELSE Some(next), prompts,
         currentGroupId, error, batchProgress)

SettingTypes == {"character", "scene"}
ItemFields == {"name", "description", "prompt"}
GlobalFields == {"overview", "style"}

\* the item handleAddSetting appends
NewItem(type) ==
  [name |-> IF type = "character" THEN "new character" ELSE "new scene",
   description |-> "enter a visual description",
   prompt |-> "prompt to be generated"]

ListOf(settings, type) ==
  IF type = "character" THEN settings.characters ELSE settings.scenes

WithList(settings, type, list) ==
  IF type = "character"
  THEN [settings EXCEPT !.characters = list]
  ELSE [settings EXCEPT !.scenes = list]

\* list.splice(index, 1): a negative index counts from the end, and the
\* start is clamped to the list
Splice(list, index) ==
  LET start == IF index < 0 THEN Max(Len(list) + index, 0) ELSE Min(index, Len(list))
  IN SubSeq(list, 1, start) \o SubSeq(list, start + 2, Len(list))

\* what handleUpdateSetting leaves of the bundle prev
UpdateSetting(prev, type, index, field, value) ==
  LET targetArray == ListOf(prev.settings, type)
  IN IF index + 1 \in DOMAIN targetArray
     THEN [prev EXCEPT !.settings =
             WithList(@, type, [targetArray EXCEPT ![index + 1] =
                                  [@ EXCEPT ![field] = value]])]
     ELSE prev

\* The index is the one of an item on screen (a keystroke in one of its
\* inputs), or the one an image analysis was started with, which may be past
\* the end of the list by the time the analysis returns.
handleUpdateSetting(type, index, field, value) ==
  /\ StoryboardViewShown
  /\ activeTab = "settings"
  /\ edits < MaxEdits
  /\ index \in 0..Len(ListOf(storyboard[1].settings, type))
  /\ UpdateStoryboard(UpdateSetting(storyboard[1], type, index, field, value))
  /\ edits' = edits + 1
  /\ UNCHANGED <<taskVars, harnessVars>>

handleUpdateGlobalSetting(field, value) ==
  /\ StoryboardViewShown
  /\ activeTab = "settings"
  /\ edits < MaxEdits
  /\ UpdateStoryboard([storyboard[1] EXCEPT !.settings = [@ EXCEPT ![field] = value]])
  /\ edits' = edits + 1
  /\ UNCHANGED <<taskVars, harnessVars>>

\* variant: the new item is put in front
AddSettingInFront(prev, type) ==
  [prev EXCEPT !.settings =
     WithList(@, type, <<NewItem(type)>> \o ListOf(prev.settings, type))]

\* what handleAddSetting leaves of the bundle prev
AddSetting(prev, type) ==
  [prev EXCEPT !.settings =
     WithList(@, type, Append(ListOf(prev.settings, type), NewItem(type)))]

handleAddSetting(type) ==
  /\ StoryboardViewShown
  /\ activeTab = "settings"
  /\ edits < MaxEdits
  /\ UpdateStoryboard(AddSetting(storyboard[1], type))
  /\ edits' = edits + 1
  /\ UNCHANGED <<taskVars, harnessVars>>

\* variant: the item after the one at index is removed
DeleteSettingNext(prev, type, index) ==
  [prev EXCEPT !.settings =
     WithList(@, type, Splice(ListOf(prev.settings, type), index + 1))]

\* what handleDeleteSetting leaves of the bundle prev
DeleteSetting(prev, type, index) ==
  [prev EXCEPT !.settings =
     WithList(@, type, Splice(ListOf(prev.settings, type), index))]

\* the delete button of the item at index
handleDeleteSetting(type, index) ==
  /\ StoryboardViewShown
  /\ activeTab = "settings"
  /\ edits < MaxEdits
  /\ index \in 0..(Len(ListOf(storyboard[1].settings, type)) - 1)
  /\ UpdateStoryboard(DeleteSetting(storyboard[1], type, index))
  /\ edits' = edits + 1
  /\ UNCHANGED <<taskVars, harnessVars>>

\* a script, or undefined, as handed to handleUpdateScript
Defined(script) == [defined |-> TRUE, shots |-> script]
Undefined == [defined |-> FALSE, shots |-> <<>>]

\* what handleUpdateScript leaves of the bundle prev
UpdateScript(prev, newScript) ==
  IF newScript.defined
  THEN [prev EXCEPT !.script = newScript.shots]
  ELSE [prev EXCEPT !.script = <<>>, !.present = @ \ {"script"}]

\* handleUpdateScript, called by StoryboardView
handleUpdateScript(newScript) ==
  UpdateStoryboard(UpdateScript(storyboard[1], newScript))

\* data.script.map(s => s.id === editingShotId ? {...s, description: editValue} : s)
EditedScript(script, editingShotId, editValue) ==
  [k \in 1..Len(script) |->
     IF script[k].id = editingShotId
     THEN [script[k] EXCEPT !.description = editValue]
     ELSE script[k]]

\* startEditShot of a shot on screen, typing, and saveEditShot
saveEditShot(editingShotId, editValue) ==
  /\ StoryboardViewShown
  /\ activeTab = "script"
  /\ edits < MaxEdits
  /\ \E k \in 1..Len(storyboard[1].script) : storyboard[1].script[k].id = editingShotId
  /\ handleUpdateScript(Defined(EditedScript(storyboard[1].script, editingShotId, editValue)))
  /\ edits' = edits + 1
  /\ UNCHANGED <<taskVars, harnessVars>>

\* handleScriptRefine up to the await of refineStoryboardScript
handleScriptRefine ==
  LET refine == [kind |-> "refine", call |-> SGC_Start(TRUE)]
  IN /\ StoryboardViewShown
     /\ activeTab = "script"
     /\ edits < MaxEdits
     /\ FreeSlots # {}
     /\ tasks' = [tasks EXCEPT ![NewSlot] = refine]
     /\ pending' = pending \cup Attempts(NewSlot, refine)
     /\ edits' = edits + 1
     /\ UNCHANGED <<appVars, mounted, quotaErrors, harnessVars>>

\* an attempt of refineStoryboardScript's call fails with a quota error and is
\* retried
RefineAttemptRetries ==
  \E tok \in pending, resp \in AppResponses :
    LET refine == tasks[tok.slot]
        c == SGC_OnResponse(refine.call, resp)
    IN /\ refine.kind = "refine"
       /\ c.pc = "backoff"
       /\ quotaErrors < quotaBudget
       /\ quotaErrors' = quotaErrors + 1
       /\ tasks' = [tasks EXCEPT ![tok.slot].call = c]
       /\ pending' = pending \ {tok}
       /\ UNCHANGED <<appVars, mounted, sgcVars>>

\* the scripts the upstream answers a refinement of `script` with: the shots
\* rewritten, or the script without its last shot
RefinedScripts(script) ==
  {[k \in 1..Len(script) |-> [script[k] EXCEPT !.description = "refined"]],
   SubSeq(script, 1, Len(script) - 1)}

\* JSON.parse(cleanJsonString(result.text || "{}")).script
ParsedScript(text, script) == IF text = "" THEN Undefined ELSE Defined(script)

\* refineStoryboardScript's call settles, and the rest of handleScriptRefine
RefineSettlesWith(tok, resp, newScript) ==
  LET refine == tasks[tok.slot]
      c == SGC_OnResponse(refine.call, resp)
  IN /\ refine.kind = "refine"
     /\ c.pc \in {"returned", "thrown"}
     /\ tasks' = [tasks EXCEPT ![tok.slot] = Free]
     /\ pending' = pending \ {tok}
     /\ IF c.pc = "returned" /\ c.result.text # "garbage"
        THEN handleUpdateScript(ParsedScript(c.result.text, newScript))
        ELSE UNCHANGED <<appVars, mounted>>
     /\ UNCHANGED <<quotaErrors, sgcVars>>

RefineSettles ==
  \E tok \in pending, resp \in AppResponses :
    /\ storyboard # Null
    /\ \E newScript \in RefinedScripts(storyboard[1].script) :
         RefineSettlesWith(tok, resp, newScript)

\* the backoff timer of refineStoryboardScript's call fires
RefineBackoffEnds ==
  \E k \in Slots :
    LET c == SGC_AfterBackoff(tasks[k].call)
        refine == IF c.pc = "thrown" THEN Free ELSE [tasks[k] EXCEPT !.call = c]
    IN /\ tasks[k].kind = "refine"
       /\ tasks[k].call.pc = "backoff"
       /\ tasks' = [tasks EXCEPT ![k] = refine]
       /\ pending' = pending \cup Attempts(k, refine)
       /\ UNCHANGED <<appVars, mounted, quotaErrors, sgcVars>>

\* an edit of the script or of the settings
EditValues == {"edited"}

SettingEdit ==
  \/ \E type \in SettingTypes, index \in 0..MaxEdits, field \in ItemFields,
        value \in EditValues : handleUpdateSetting(type, index, field, value)
  \/ \E field \in GlobalFields, value \in EditValues :
       handleUpdateGlobalSetting(field, value)
  \/ \E type \in SettingTypes : handleAddSetting(type)
  \/ \E type \in SettingTypes, index \in 0..MaxEdits : handleDeleteSetting(type, index)

ScriptEdit ==
  \/ \E editingShotId \in 1..(2 * ChunkSize), editValue \in EditValues :
       saveEditShot(editingShotId, editValue)
  \/ handleScriptRefine
  \/ RefineAttemptRetries
  \/ RefineSettles
  \/ RefineBackoffEnds

\* ------------------------------------------------ PromptDisplay: editing
\* variant: the entry is replaced by one that holds the imagePrompts only
UpdatePromptDataNoSpread(prev, groupId, newImagePrompts) ==
  Spread(prev, groupId,
         [EmptyObject EXCEPT !.imagePrompts = newImagePrompts,
                             !.present = {"imagePrompts"}])

\* {...prev, [groupId]: {...prev[groupId], imagePrompts: newImagePrompts}}
UpdatePromptData(prev, groupId, newImagePrompts) ==
  Spread(prev, groupId,
         IF groupId \in DOMAIN prev
         THEN [prev[groupId] EXCEPT !.imagePrompts = newImagePrompts,
                                    !.present = @ \cup {"imagePrompts"}]
         ELSE [EmptyObject EXCEPT !.imagePrompts = newImagePrompts,
                                  !.present = {"imagePrompts"}])

handleUpdatePromptData(groupId, newImagePrompts) ==
  Commit(appState, storyboard, UpdatePromptData(prompts, groupId, newImagePrompts),
         currentGroupId, error, batchProgress)

\* the fields of imagePrompts the model edits
EditKeys == {"shot", "style"}

\* is there a currentPrompt: a selected group with an entry
HasCurrentPrompt == currentGroupId # NoGroup /\ currentGroupId \in DOMAIN prompts

\* startEdit of a field of the selected group's result, typing, and saveEdit
saveEdit(key, editValue) ==
  /\ PromptDisplayShown
  /\ HasCurrentPrompt
  /\ edits < MaxEdits
  /\ handleUpdatePromptData(currentGroupId,
                            [prompts[currentGroupId].imagePrompts EXCEPT ![key] = editValue])
  /\ edits' = edits + 1
  /\ UNCHANGED <<taskVars, harnessVars>>

PromptRefineSlots == {k \in Slots : tasks[k].kind = "promptRefine"}

\* handleAIRefine up to the await of refinePrompt; its buttons are disabled
\* while a refinement is under way
handleAIRefine ==
  LET refine == [kind |-> "promptRefine", call |-> SGC_Start(TRUE),
                 groupId |-> currentGroupId]
  IN /\ PromptDisplayShown
     /\ HasCurrentPrompt
     /\ PromptRefineSlots = {}
     /\ edits < MaxEdits
     /\ FreeSlots # {}
     /\ tasks' = [tasks EXCEPT ![NewSlot] = refine]
     /\ pending' = pending \cup Attempts(NewSlot, refine)
     /\ edits' = edits + 1
     /\ UNCHANGED <<appVars, mounted, quotaErrors, harnessVars>>

\* an attempt of refinePrompt's call fails with a quota error and is retried
PromptRefineAttemptRetries ==
  \E tok \in pending, resp \in AppResponses :
    LET refine == tasks[tok.slot]
        c == SGC_OnResponse(refine.call, resp)
    IN /\ refine.kind = "promptRefine"
       /\ c.pc = "backoff"
       /\ quotaErrors < quotaBudget
       /\ quotaErrors' = quotaErrors + 1
       /\ tasks' = [tasks EXCEPT ![tok.slot].call = c]
       /\ pending' = pending \ {tok}
       /\ UNCHANGED <<appVars, mounted, sgcVars>>

\* JSON.parse(cleanJsonString(result.text || "{}")) of refinePrompt: the fields
\* rewritten, or {} for an empty text
RefinedImagePrompts(text) ==
  [k \in ImageKeys |-> IF text = "" THEN "undefined" ELSE "refined"]

\* refinePrompt's call settles, and the rest of handleAIRefine
PromptRefineSettlesWith(tok, resp) ==
  LET refine == tasks[tok.slot]
      c == SGC_OnResponse(refine.call, resp)
  IN /\ refine.kind = "promptRefine"
     /\ c.pc \in {"returned", "thrown"}
     /\ tasks' = [tasks EXCEPT ![tok.slot] = Free]
     /\ pending' = pending \ {tok}
     /\ IF c.pc = "returned" /\ c.result.text # "garbage"
        THEN handleUpdatePromptData(refine.groupId, RefinedImagePrompts(c.result.text))
        ELSE UNCHANGED <<appVars, mounted>>
     /\ UNCHANGED <<quotaErrors, sgcVars>>

PromptRefineSettles ==
  \E tok \in pending, resp \in AppResponses : PromptRefineSettlesWith(tok, resp)

\* the backoff timer of refinePrompt's call fires
PromptRefineBackoffEnds ==
  \E k \in PromptRefineSlots :
    LET c == SGC_AfterBackoff(tasks[k].call)
        refine == IF c.pc = "thrown" THEN Free ELSE [tasks[k] EXCEPT !.call = c]
    IN /\ tasks[k].call.pc = "backoff"
       /\ tasks' = [tasks EXCEPT ![k] = refine]
       /\ pending' = pending \cup Attempts(k, refine)
       /\ UNCHANGED <<appVars, mounted, quotaErrors, sgcVars>>

PromptEdit ==
  \/ \E key \in EditKeys, editValue \in EditValues : saveEdit(key, editValue)
  \/ handleAIRefine
  \/ PromptRefineAttemptRetries
  \/ PromptRefineSettles
  \/ PromptRefineBackoffEnds

\* ------------------------------------------------------------------- Next
Next ==
  \/ handleIdeaSubmit
  \/ StoryboardAttemptRetries
  \/ StoryboardSettles
  \/ StoryboardBackoffEnds
  \/ handleScriptUpload
  \/ handleConfirmStoryboard
  \/ handleRegenerateAll
  \/ handleRegenerateGroup
  \/ handleSelectGroup
  \/ handleReset
  \/ PromptAttemptRetries
  \/ PromptItemSettles
  \/ PauseTimerFires
  \/ PromptBackoffEnds

Spec == Init /\ [][Next]_vars


\* ---------------------------------------------------------- the queue alone
\* The commands that start queue runs and the steps of the runs, with an
\* upstream that may answer up to MaxRunQuotaErrors attempts with a quota
\* error, under the assumption that every call in flight is answered and every
\* timer fires.
QueueInit ==
  AppInit /\ sgcKey = TRUE /\ quotaBudget = MaxRunQuotaErrors /\ CleanIdle

\* a step of the run in slot k
RunStep(k) ==
  \/ \E tok \in pending, resp \in AppResponses :
       /\ tok.slot = k
       /\ PromptAttemptRetriesWith(tok, resp) \/ PromptItemSettlesWith(tok, resp)
  \/ PauseTimerFiresAt(k)
  \/ PromptBackoffEndsAt(k)

QueueNext ==
  \/ handleScriptUpload
  \/ handleConfirmStoryboard
  \/ handleRegenerateAll
  \/ handleRegenerateGroup
  \/ PromptAttemptRetries
  \/ PromptItemSettles
  \/ PauseTimerFires
  \/ PromptBackoffEnds

SpecQueue ==
  QueueInit /\ [][QueueNext]_vars /\ \A k \in Slots : WF_vars(RunStep(k))

\* -------------------------------------------------- regeneration alone
\* The App with the prompts of a two-group script on screen, each group with or
\* without a result, and the commands that screen and the header offer.
RegenerateInit ==
  /\ appState = VIEW_PROMPTS
  /\ storyboard = Some(StoryboardData(8, 2))
  /\ \E ids \in SUBSET {1, 2} : prompts = [g \in ids |-> PromptData(g, 0)]
  /\ currentGroupId \in {NoGroup, 1, 2}
  /\ error = NoError
  /\ batchProgress = Null
  /\ mounted = TRUE
  /\ tasks = [k \in 1..MaxLive |-> Free]
  /\ pending = {}
  /\ quotaErrors = 0
  /\ sgc = NoCall /\ sgcLog = <<>> /\ sgcCalls = 0 /\ sgcKey = TRUE
  /\ quotaBudget = MaxQuotaErrors
  /\ CleanIdle
  /\ activeTab = "groups" /\ edits = 0
  /\ exported = Null

RegenerateNext ==
  \/ handleRegenerateAll
  \/ handleRegenerateGroup
  \/ handleSelectGroup
  \/ handleReset
  \/ PromptAttemptRetries
  \/ PromptItemSettles
  \/ PauseTimerFires
  \/ PromptBackoffEnds

SpecRegenerate == RegenerateInit /\ [][RegenerateNext]_vars

\* ------------------------------------------------- the shots of a group
\* The queue over scripts loaded from files, among them a script whose last
\* chunk is short and one whose group list is not in the order of the ids.
ShotFiles ==
  {Bare(StoryboardData(8, 2)), Bare(StoryboardData(6, 2)), Bare(SwappedGroups),
   Snapshot(StoryboardData(8, 2), {1})}

ShotsNext ==
  \/ \E data \in ShotFiles : handleScriptUploadWith(data)
  \/ handleConfirmStoryboard
  \/ handleRegenerateAll
  \/ handleRegenerateGroup
  \/ PromptAttemptRetries
  \/ PromptItemSettles
  \/ PauseTimerFires
  \/ PromptBackoffEnds

SpecShots == Init /\ [][ShotsNext]_vars

\* --------------------------------------------------- editing the script
\* The App from a submission to the review of the generated script, with the
\* edits StoryboardView offers.
\* a project file whose settings list two characters and one scene
Item(name) == [name |-> name, description |-> "description", prompt |-> "prompt"]

WithCast ==
  [StoryboardData(8, 2) EXCEPT
     !.settings = [@ EXCEPT !.characters = <<Item("hero"), Item("rival")>>,
                            !.scenes = <<Item("street")>>]]

EditFiles == {Bare(WithCast)}

\* The settings of an imported project under review, with the edits the
\* settings tab offers.
SettingsNext ==
  \/ \E data \in EditFiles : handleScriptUploadWith(data)
  \/ \E tab \in Tabs : setActiveTab(tab)
  \/ SettingEdit

SpecSettings == Init /\ [][SettingsNext]_vars

EditNext ==
  \/ handleIdeaSubmit
  \/ StoryboardAttemptRetries
  \/ StoryboardSettles
  \/ StoryboardBackoffEnds
  \/ \E tab \in Tabs : setActiveTab(tab)
  \/ SettingEdit
  \/ ScriptEdit

SpecEdit == Init /\ [][EditNext]_vars

\* ------------------------------------------- the edit handlers as functions
\* The handlers of the App called with any arguments of their types, in any
\* phase, with or without a bundle.
CallIndexes == (0 - 2)..3

handleUpdateSettingCalled(type, index, field, value) ==
  /\ mounted
  /\ edits < MaxEdits
  /\ UpdateStoryboard(UpdateSetting(storyboard[1], type, index, field, value))
  /\ edits' = edits + 1
  /\ UNCHANGED <<taskVars, harnessVars>>

handleUpdateGlobalSettingCalled(field, value) ==
  /\ mounted
  /\ edits < MaxEdits
  /\ UpdateStoryboard([storyboard[1] EXCEPT !.settings = [@ EXCEPT ![field] = value]])
  /\ edits' = edits + 1
  /\ UNCHANGED <<taskVars, harnessVars>>

handleAddSettingCalled(type) ==
  /\ mounted
  /\ edits < MaxEdits
  /\ UpdateStoryboard(AddSetting(storyboard[1], type))
  /\ edits' = edits + 1
  /\ UNCHANGED <<taskVars, harnessVars>>

handleDeleteSettingCalled(type, index) ==
  /\ mounted
  /\ edits < MaxEdits
  /\ UpdateStoryboard(DeleteSetting(storyboard[1], type, index))
  /\ edits' = edits + 1
  /\ UNCHANGED <<taskVars, harnessVars>>

handleUpdateScriptCalled(newScript) ==
  /\ mounted
  /\ edits < MaxEdits
  /\ UpdateStoryboard(UpdateScript(storyboard[1], newScript))
  /\ edits' = edits + 1
  /\ UNCHANGED <<taskVars, harnessVars>>

EditCalled ==
  \/ \E type \in SettingTypes, index \in CallIndexes, field \in ItemFields,
        value \in EditValues : handleUpdateSettingCalled(type, index, field, value)
  \/ \E field \in GlobalFields, value \in EditValues :
       handleUpdateGlobalSettingCalled(field, value)
  \/ \E type \in SettingTypes : handleAddSettingCalled(type)
  \/ \E type \in SettingTypes, index \in CallIndexes : handleDeleteSettingCalled(type, index)
  \/ handleUpdateScriptCalled(Defined(<<Shot(1)>>))

CallsNext ==
  \/ \E data \in EditFiles : handleScriptUploadWith(data)
  \/ EditCalled

SpecCalls == Init /\ [][CallsNext]_vars

\* ---------------------------------------------------- export and import
\* The App from the import of a file to the prompts on screen, with the
\* refinement of the script, the export of the project, the reset, and the
\* import of the exported file.

\* exportData of handleExportJSON
ExportData(sb, p) ==
  [present |-> {"meta", "storyboard", "prompts"}, storyboard |-> sb, prompts |-> p]

\* JSON.parse(JSON.stringify(exportData)) as handleScriptFileLoad reads it:
\* the own keys with a defined value, at the top level and in the script
\* bundle; read as a script bundle the object has none of the bundle's keys
ParsedExport(exportData) ==
  [present |-> exportData.present,
   storyboard |-> exportData.storyboard,
   prompts |-> exportData.prompts,
   bundle |-> [EmptyBundle EXCEPT !.present = exportData.present]]

\* handleExportJSON, from the export menu of PromptDisplay
handleExportJSON ==
  /\ PromptDisplayShown
  /\ exported' = Some(ExportData(storyboard[1], prompts))
  /\ UNCHANGED <<appVars, mounted, taskVars, sgc, sgcLog, sgcCalls, sgcKey,
                 quotaBudget, cleanVars, viewVars>>

\* the exported file is chosen in IdeaInput
handleScriptFileLoadExported ==
  /\ exported # Null
  /\ handleScriptUploadWith(ParsedExport(exported[1]))

\* the bundles on screen when the project is exported: as generated, after a
\* refinement that dropped the last shot, and after a refinement the upstream
\* answered with an empty text
ExportBundles ==
  {StoryboardData(8, 2),
   UpdateScript(StoryboardData(8, 2), Defined(SubSeq(StoryboardData(8, 2).script, 1, 7))),
   UpdateScript(StoryboardData(8, 2), Undefined)}

ExportInit ==
  /\ appState = VIEW_PROMPTS
  /\ \E sb \in ExportBundles : storyboard = Some(sb)
  /\ \E ids \in SUBSET {1, 2} : prompts = [g \in ids |-> PromptData(g, 0)]
  /\ currentGroupId \in {NoGroup, 1}
  /\ error = NoError
  /\ batchProgress = Null
  /\ mounted = TRUE
  /\ tasks = [k \in 1..MaxLive |-> Free]
  /\ pending = {}
  /\ quotaErrors = 0
  /\ sgc = NoCall /\ sgcLog = <<>> /\ sgcCalls = 0 /\ sgcKey = TRUE
  /\ quotaBudget = MaxQuotaErrors
  /\ CleanIdle
  /\ activeTab = "groups" /\ edits = 0
  /\ exported = Null

ExportNext ==
  \/ handleExportJSON
  \/ handleReset
  \/ handleScriptFileLoadExported
  \/ handleConfirmStoryboard
  \/ PromptItemSettles
  \/ PauseTimerFires

SpecExport == ExportInit /\ [][ExportNext]_vars

\* --------------------------------------------------- editing the prompts
\* The prompts of a two-group script on screen, with regeneration, selection,
\* reset and the edits PromptDisplay offers.
PromptsNext == RegenerateNext \/ PromptEdit

SpecPrompts == RegenerateInit /\ [][PromptsNext]_vars

\* ------------------------------------------------------ sanitizer harness
\* A response text is put together from a candidate payload, an opening fence,
\* the closing fence and whitespace around them; it is sanitized and parsed as
\* generateStoryboard and generatePromptsForGroup do, and so is the payload alone.
OpeningFences ==
  {Fence, Fence \o <<"j", "s", "o", "n">>, Fence \o <<"J", "S", "O", "N">>,
   Fence \o <<"J", "s", "o", "n">>}

OuterWhitespace == {<<>>, <<" ">>, <<"\n">>, <<"nbsp", "\n">>}
InnerWhitespace == {<<>>, <<"\n">>}

\* what the upstream may send as the payload: JSON, prose, or nothing
Candidates == Payloads \cup {<<"o", "o", "p", "s">>, <<>>}

Wrapped(in) ==
  in.before \o in.open \o in.inner1 \o in.payload \o in.inner2 \o Fence \o in.after

\* JSON.parse(cleanJsonString(response.text || "{}"))
ParseText(text) ==
  JsonParse(cleanJsonString(IF text = <<>> THEN <<"{", "}">> ELSE text))

CleanInit ==
  /\ AppInit /\ sgcKey = TRUE /\ quotaBudget = MaxQuotaErrors
  /\ cleanInput \in [payload : Candidates, open : OpeningFences,
                     before : OuterWhitespace, inner1 : InnerWhitespace,
                     inner2 : InnerWhitespace, after : OuterWhitespace]
  /\ cleanOutput = <<>>

CleanAndParse ==
  /\ cleanOutput = <<>>
  /\ cleanOutput' = [fenced |-> ParseText(Wrapped(cleanInput)),
                     plain |-> ParseText(cleanInput.payload)]
  /\ UNCHANGED <<appVars, mounted, taskVars, sgc, sgcLog, sgcCalls, sgcKey,
                 quotaBudget, cleanInput, viewVars, exported>>

SpecClean == CleanInit /\ [][CleanAndParse]_vars

\* =================================================================== claims
\* ------------------------------------------------- safeGenerateContent
\* the classification in the words of the specification
Transient(resp) ==
  /\ ~resp.ok
  /\ \/ resp.error.status = 429
     \/ resp.error.code = 429
     \/ Includes(resp.error.message, <<"4", "2", "9">>)
     \/ Includes(resp.error.message, <<"q", "u", "o", "t", "a">>)
     \/ Includes(resp.error.message, MsgExhausted)

AllTransient(log) == \A j \in 1..Len(log) : Transient(log[j])

\* C4: when the upstream fails with a transient error exactly k times, k <= 3,
\* and then succeeds, safeGenerateContent returns that success after exactly
\* k+1 attempts; when the upstream fails with a transient error on every
\* attempt, safeGenerateContent makes exactly 4 attempts and then throws the
\* error of the 4th attempt (it neither stops earlier nor attempts a 5th time).
C4_RetryThenSucceedOrExhaust ==
  LET n == Len(sgcLog)
  IN /\ (n >= 1 /\ sgcLog[n].ok /\ AllTransient(SubSeq(sgcLog, 1, n - 1)))
          => /\ n - 1 <= maxRetries
             /\ sgc.pc = "returned"
             /\ sgc.result = sgcLog[n]
             /\ sgc.attempts = n
     /\ (n >= 1 /\ AllTransient(sgcLog))
          => /\ n <= 4
             /\ sgc.attempts \in {n, n + 1}
             /\ n < 4 => sgc.pc \in {"backoff", "inflight"}
             /\ n = 4 => /\ sgc.pc = "thrown"
                         /\ sgc.result = sgcLog[4]
                         /\ sgc.attempts = 4

\* C4 witness: a call whose four attempts all failed with a transient error
\* has thrown
C4_Witness ==
  /\ Len(sgcLog) = 4
  /\ AllTransient(sgcLog)
  /\ sgc.pc = "thrown"

\* C5: an error that is not transient is thrown to the caller by the attempt
\* on which it occurs, whether that is the first attempt or one after earlier
\* transient failures: the call ends with that error, having made no attempt
\* after it and having waited only after the earlier transient failures.
C5_NonTransientThrownAtOnce ==
  LET n == Len(sgcLog)
  IN (n >= 1 /\ ~sgcLog[n].ok /\ ~Transient(sgcLog[n]))
       => /\ sgc.pc = "thrown"
          /\ sgc.result = sgcLog[n]
          /\ sgc.attempts = n
          /\ Len(sgc.waited) = n - 1

\* C5 witness: a call has thrown a non-transient error on its third attempt,
\* after two transient failures
C5_Witness ==
  /\ Len(sgcLog) = 3
  /\ AllTransient(SubSeq(sgcLog, 1, 2))
  /\ ~sgcLog[3].ok
  /\ ~Transient(sgcLog[3])
  /\ sgc.pc = "thrown"

\* ---------------------------------------------------- runGenerationQueue
\* the ids of the first n items of a work list
IdsUpTo(groupsToProcess, n) == [j \in 1..n |-> groupsToProcess[j].id]

\* the values of BatchProgress from {0, N} to {m, N}
ProgressUpTo(m, N) == [j \in 1..(m + 1) |-> Progress(j - 1, N)]

\* C1: a run of runGenerationQueue attempts the items of its work list one by
\* one in list order, each exactly once, whatever the outcomes of the items
\* before: a step of a run keeps it on its item or moves it to the next one, a
\* failed item leaves the run alive and the error message untouched, and the
\* run returns only after the pause of its last item, with as many
\* iterations as the list has items.
C1_EachItemOnceInOrder ==
  /\ [](\A k \in RunSlots :
          /\ tasks[k].pc \in {"call", "pause"}
          /\ tasks[k].i < Len(tasks[k].groupsToProcess)
          /\ tasks[k].attempted = IdsUpTo(tasks[k].groupsToProcess, tasks[k].i + 1))
  /\ [][\A k \in RunSlots :
          tasks'[k] # tasks[k]
            => /\ error' = error
               /\ \/ /\ tasks'[k].kind = "run"
                     /\ tasks'[k].groupsToProcess = tasks[k].groupsToProcess
                     /\ \/ tasks'[k].i = tasks[k].i
                        \/ tasks'[k].i = tasks[k].i + 1 /\ tasks[k].pc = "pause"
                  \/ /\ tasks'[k] = Free
                     /\ tasks[k].pc = "pause"
                     /\ Len(tasks[k].attempted) = Len(tasks[k].groupsToProcess)]_vars

\* C1 witness: a run over two items is attempting its second item after its
\* first item failed
C1_Witness ==
  \E k \in RunSlots :
    /\ Len(tasks[k].groupsToProcess) = 2
    /\ tasks[k].i = 1
    /\ tasks[k].pc = "call"
    /\ tasks[k].groupsToProcess[1].id \notin tasks[k].succeeded

\* C2: the values a run over N items publishes to BatchProgress are {0, N},
\* {1, N}, ..., {N, N} in this order, one more after each item whether it
\* succeeded or failed and however often its call was retried, and then, when
\* the run completes, absent; each value is what BatchProgress holds right
\* after it is published.
C2_ProgressCountsItems ==
  /\ [](\A k \in RunSlots :
          tasks[k].published =
            ProgressUpTo(IF tasks[k].pc = "pause" THEN tasks[k].i + 1 ELSE tasks[k].i,
                         Len(tasks[k].groupsToProcess)))
  /\ [][\A k \in Slots :
          /\ (tasks[k] = Free /\ tasks'[k].kind = "run")
               => batchProgress' = Progress(0, Len(tasks'[k].groupsToProcess))
          /\ (tasks[k].kind = "run" /\ tasks'[k].kind = "run"
                /\ tasks'[k].published # tasks[k].published /\ mounted)
               => batchProgress' = Last(tasks'[k].published)
          /\ (tasks[k].kind = "run" /\ tasks'[k] = Free)
               => /\ tasks[k].published =
                       ProgressUpTo(Len(tasks[k].groupsToProcess),
                                    Len(tasks[k].groupsToProcess))
                  /\ mounted => batchProgress' = Null]_vars

\* C2 witness: a run over two items, the first of which failed, has published
\* {2, 2}
C2_Witness ==
  \E k \in RunSlots :
    /\ Len(tasks[k].groupsToProcess) = 2
    /\ tasks[k].groupsToProcess[1].id \notin tasks[k].succeeded
    /\ tasks[k].pc = "pause"
    /\ batchProgress = Progress(2, 2)

\* the attempts of the invocation in slot k that are in flight
InFlight(k) == {tok \in pending : tok.slot = k}

\* C3: a run has at most one generation call in flight, and it is the call of
\* the item the run is on; the call of the next item is invoked only by a run
\* whose previous call has settled, whose progress update for the previous
\* item is published and whose 500 ms pause has been running.
C3_OneCallInFlight ==
  /\ [](\A k \in RunSlots :
          /\ Cardinality(InFlight(k)) <= 1
          /\ \A tok \in InFlight(k) : tok.item = tasks[k].i /\ tasks[k].pc = "call"
          /\ tasks[k].call.pc = "inflight" => InFlight(k) # {})
  /\ [][\A tok \in pending' \ pending :
          (tasks'[tok.slot].kind = "run" /\ tok.item > 0 /\ tok.attempt = 1)
            => /\ tasks[tok.slot].kind = "run"
               /\ InFlight(tok.slot) = {}
               /\ tasks[tok.slot].i = tok.item - 1
               /\ tasks[tok.slot].pc = "pause"
               /\ tasks[tok.slot].timer = PauseMs
               /\ Last(tasks[tok.slot].published) =
                    Progress(tok.item, Len(tasks[tok.slot].groupsToProcess))]_vars

\* C3 witness: the call for the second item of a run is in flight
C3_Witness ==
  \E tok \in pending :
    /\ tasks[tok.slot].kind = "run"
    /\ tok.item = 1
    /\ tasks[tok.slot].call.pc = "inflight"

\* ------------------------------------------------------------ the phases
\* C6: submitting a brief while the phase is IDLE moves it to
\* GENERATING_STORYBOARD; the phase leaves GENERATING_STORYBOARD only for IDLE
\* (script generation failed) or REVIEW_STORYBOARD (it succeeded), so no
\* submission reaches GENERATING_PROMPTS or VIEW_PROMPTS except through
\* REVIEW_STORYBOARD and a confirm; and the completion of a submission sets
\* one of these two phases.
C6_SubmissionPath ==
  [][/\ handleIdeaSubmit => appState = IDLE /\ appState' = GENERATING_STORYBOARD
     /\ appState = GENERATING_STORYBOARD
          => appState' \in {GENERATING_STORYBOARD, IDLE, REVIEW_STORYBOARD}
     /\ (\E k \in SubmitSlots : tasks'[k] = Free /\ mounted)
          => appState' \in {IDLE, REVIEW_STORYBOARD}]_vars

\* the phase changes the specification lists
LegalTransitions ==
  {<<IDLE, GENERATING_STORYBOARD>>, <<GENERATING_STORYBOARD, REVIEW_STORYBOARD>>,
   <<GENERATING_STORYBOARD, IDLE>>, <<IDLE, REVIEW_STORYBOARD>>,
   <<REVIEW_STORYBOARD, GENERATING_PROMPTS>>, <<REVIEW_STORYBOARD, VIEW_PROMPTS>>,
   <<GENERATING_PROMPTS, VIEW_PROMPTS>>, <<VIEW_PROMPTS, GENERATING_PROMPTS>>}
    \cup {<<a, IDLE>> : a \in AppState \ {IDLE}}

\* C7: every change of the phase, by a command or by the completion of a call
\* in flight, is one of the legal transitions.
C7_OnlyLegalTransitions ==
  [][appState' # appState => <<appState, appState'>> \in LegalTransitions]_vars

\* ------------------------------------------------ handleConfirmStoryboard
\* the groups without a result, in list order
Missing(groups, p) == SelectSeq(groups, LAMBDA g : g.id \notin DOMAIN p)

\* what a confirm does when no group lacks a result, as the specification
\* describes it
ConfirmGoesStraightToView ==
  /\ appState' = VIEW_PROMPTS
  /\ tasks' = tasks
  /\ batchProgress' = batchProgress
  /\ prompts' = prompts
  /\ currentGroupId # NoGroup => currentGroupId' = currentGroupId

\* C8 as stated: whenever the script is under review and no group lacks a
\* result, a bundle with no groups included, the confirm moves the phase
\* straight to VIEW_PROMPTS, starts no run, creates no BatchProgress and
\* leaves the mapping and an already selected group as they are.
C8_ConfirmWithNothingMissing ==
  (StoryboardViewShown /\ Missing(storyboard[1].groups, prompts) = <<>>)
    => /\ ENABLED (handleConfirmStoryboard /\ ConfirmGoesStraightToView)
       /\ ~ENABLED (handleConfirmStoryboard /\ ~ConfirmGoesStraightToView)

\* C8 amended: whenever the script is under review, the bundle has at least
\* one group and every group has a result, the confirm moves the phase
\* straight to VIEW_PROMPTS, starts no run, leaves BatchProgress and the
\* mapping as they are, keeps an already selected group and otherwise selects
\* the first group; the confirm of a bundle with no groups changes nothing.
C8_ConfirmWithAllResults ==
  StoryboardViewShown
    => /\ (Len(storyboard[1].groups) > 0 /\ Missing(storyboard[1].groups, prompts) = <<>>)
            => /\ ENABLED (/\ handleConfirmStoryboard
                           /\ ConfirmGoesStraightToView
                           /\ currentGroupId = NoGroup
                                => currentGroupId' = storyboard[1].groups[1].id)
               /\ ~ENABLED (/\ handleConfirmStoryboard
                            /\ ~(/\ ConfirmGoesStraightToView
                                 /\ currentGroupId = NoGroup
                                      => currentGroupId' = storyboard[1].groups[1].id))
       /\ Len(storyboard[1].groups) = 0
            => /\ ENABLED (handleConfirmStoryboard /\ UNCHANGED vars)
               /\ ~ENABLED (handleConfirmStoryboard /\ ~UNCHANGED vars)

\* C8 witness: a bundle imported with a result for each of its two groups has
\* been confirmed
C8_Witness ==
  /\ appState = VIEW_PROMPTS
  /\ storyboard = Some(StoryboardData(8, 2))
  /\ prompts = [g \in {1, 2} |-> PromptData(g, 0)]
  /\ currentGroupId = 1
  /\ batchProgress = Null
  /\ \A k \in Slots : tasks[k] = Free

\* C9: a confirm with at least one group lacking a result starts one run
\* whose work list is the groups without a result in list order, and publishes
\* BatchProgress {0, their number}; the run attempts only groups of its work
\* list, and a step of the run changes the mapping at most at the group the
\* run is on, so the results of the groups that had one are not regenerated
\* and not changed by the run.
C9_RunOverMissingGroups ==
  /\ [][(handleConfirmStoryboard /\ Missing(storyboard[1].groups, prompts) # <<>>)
          => /\ \E k \in Slots :
                  /\ tasks[k] = Free
                  /\ tasks'[k].kind = "run"
                  /\ tasks'[k].groupsToProcess = Missing(storyboard[1].groups, prompts)
                  /\ \A j \in Slots \ {k} : tasks'[j] = tasks[j]
             /\ batchProgress' =
                  Progress(0, Len(Missing(storyboard[1].groups, prompts)))
             /\ appState' = GENERATING_PROMPTS
             /\ prompts' = prompts]_vars
  /\ [][\A k \in RunSlots :
          tasks'[k] # tasks[k]
            => \A g \in (DOMAIN prompts) \cup (DOMAIN prompts') :
                 g # CurrentGroup(tasks[k]).id
                   => /\ g \in DOMAIN prompts
                      /\ g \in DOMAIN prompts'
                      /\ prompts'[g] = prompts[g]]_vars
  /\ [](\A k \in RunSlots :
          /\ CurrentGroup(tasks[k]).id \in GroupIds(tasks[k].groupsToProcess)
          /\ \A j \in 1..Len(tasks[k].attempted) :
               tasks[k].attempted[j] = tasks[k].groupsToProcess[j].id)

\* C9 witness: the run over the one group without a result has stored its
\* result, and the imported result of the other group is as it was
C9_Witness ==
  \E k \in RunSlots :
    /\ tasks[k].groupsToProcess = <<Group(2)>>
    /\ tasks[k].pc = "pause"
    /\ appState = GENERATING_PROMPTS
    /\ prompts = [g \in {1, 2} |-> PromptData(g, g - 1)]

\* C10: the confirm of a bundle with G groups and no result starts a run with
\* total G; when a run completes, the mapping holds a result for a group of
\* the work list exactly if its generation succeeded in the run or it had a
\* result before the run, and when every item succeeded in a run over all the
\* groups, the keys of the mapping are the ids of all groups and the phase is
\* VIEW_PROMPTS.
C10_MappingAfterRun ==
  [][/\ (handleConfirmStoryboard /\ Len(storyboard[1].groups) > 0 /\ prompts = EmptyPrompts)
          => batchProgress' = Progress(0, Len(storyboard[1].groups))
     /\ \A k \in RunSlots :
          tasks'[k] = Free
            => /\ \A g \in GroupIds(tasks[k].groupsToProcess) :
                    g \in DOMAIN prompts'
                      <=> g \in tasks[k].succeeded \cup tasks[k].hadBefore
               /\ (/\ tasks[k].succeeded = GroupIds(tasks[k].groupsToProcess)
                   /\ tasks[k].groupsToProcess = tasks[k].storyboard[1].groups)
                    => /\ DOMAIN prompts' = GroupIds(tasks[k].groupsToProcess)
                       /\ appState' = VIEW_PROMPTS]_vars

C12_BadResponseStoresNothing ==
  [][\A tok \in pending, resp \in AppResponses :
       (PromptItemSettlesWith(tok, resp) /\ resp.ok /\ resp.text # "json")
         => prompts' = prompts]_vars

\* C13: for a payload that is valid JSON, the text made of an opening fence
\* (with or without the json tag, in any case), the payload and the closing
\* fence, with whitespace around them, parses to what the payload alone
\* parses to, which is the payload's value.
C13_FencedParsesAsPlain ==
  (cleanOutput # <<>> /\ cleanInput.payload \in Payloads)
    => /\ cleanOutput.plain = [ok |-> TRUE, value |-> cleanInput.payload]
       /\ cleanOutput.fenced = cleanOutput.plain

C13_Witness ==
  /\ cleanOutput # <<>>
  /\ cleanInput.payload = <<"\"", Backtick, Backtick, Backtick, "\"">>
  /\ cleanInput.open = Fence \o <<"J", "S", "O", "N">>
  /\ cleanInput.before = <<"nbsp", "\n">>
  /\ cleanInput.after = <<" ">>
  /\ cleanOutput.fenced.ok

\* C14: a script generation that fails sets the phase to IDLE and records the
\* error message, and leaves the stored bundle and the mapping as they are;
\* no step of a submission but its successful end changes the bundle, and that
\* one stores the whole parsed document.
C14_FailedSubmissionKeepsState ==
  [][/\ \A tok \in pending, resp \in AppResponses, doc \in StoryboardDocs :
          (StoryboardSettlesWith(tok, resp, doc) /\ mounted)
            => IF resp.ok /\ resp.text # "garbage"
               THEN /\ storyboard' = Some(ParseResponse(resp.text, doc, EmptyBundle).value)
                    /\ prompts' = prompts
               ELSE /\ appState' = IDLE /\ error' = ScriptError
                    /\ storyboard' = storyboard /\ prompts' = prompts
     /\ (handleIdeaSubmit \/ StoryboardAttemptRetries \/ StoryboardBackoffEnds)
          => storyboard' = storyboard /\ prompts' = prompts]_vars

C14_Witness ==
  /\ mounted /\ appState = IDLE /\ error = ScriptError
  /\ storyboard = Null /\ prompts = EmptyPrompts
  /\ \A k \in Slots : tasks[k] = Free

\* C15: a script response whose text is not a document with script, groups
\* and settings (the empty text included) makes generateStoryboard throw: the
\* submission ends in IDLE with the error message and stores no bundle.
C15_BadScriptResponseFails ==
  [][\A tok \in pending, resp \in AppResponses, doc \in StoryboardDocs :
       (StoryboardSettlesWith(tok, resp, doc) /\ mounted /\ resp.ok /\ resp.text # "json")
         => /\ appState' = IDLE /\ error' = ScriptError
            /\ storyboard' = storyboard]_vars

\* C16: at most one invocation of runGenerationQueue is live at any time.
C16_AtMostOneRun == Cardinality(RunSlots) <= 1

\* C17: a confirmed regenerate-all empties the mapping and starts one run over
\* all the groups, with BatchProgress {0, number of groups} and the phase
\* GENERATING_PROMPTS; when the run over all the groups completes, the keys of
\* the mapping are the ids of the groups whose generation succeeded in it.
C17_RegenerateAll ==
  [][/\ handleRegenerateAllWith(TRUE)
          => /\ prompts' = EmptyPrompts
             /\ appState' = GENERATING_PROMPTS
             /\ batchProgress' = Progress(0, Len(storyboard[1].groups))
             /\ \E k \in Slots :
                  /\ tasks[k] = Free
                  /\ tasks'[k].kind = "run"
                  /\ tasks'[k].groupsToProcess = storyboard[1].groups
                  /\ \A j \in Slots \ {k} : tasks'[j] = tasks[j]
     /\ \A k \in RunSlots :
          (tasks'[k] = Free /\ Len(tasks[k].groupsToProcess) = 2)
            => DOMAIN prompts' = tasks[k].succeeded]_vars

\* C18: regenerate-one for group g starts one run whose work list is [g], with
\* BatchProgress {0, 1}, and leaves the mapping as it is; no step of a run over
\* one group changes the entry of another group; and when the generation of g
\* succeeds (with the App on screen), the entry of g is the new result.
C18_RegenerateOne ==
  [][/\ \A g \in {1, 2} :
          handleRegenerateGroupWith(g)
            => /\ prompts' = prompts
               /\ appState' = GENERATING_PROMPTS
               /\ batchProgress' = Progress(0, 1)
               /\ \E k \in Slots :
                    /\ tasks[k] = Free
                    /\ tasks'[k].kind = "run"
                    /\ GroupIds(tasks'[k].groupsToProcess) = {g}
                    /\ Len(tasks'[k].groupsToProcess) = 1
                    /\ \A j \in Slots \ {k} : tasks'[j] = tasks[j]
     /\ \A k \in RunSlots :
          (Len(tasks[k].groupsToProcess) = 1 /\ tasks'[k] # tasks[k])
            => \A g \in ((DOMAIN prompts) \cup (DOMAIN prompts')) \
                         {tasks[k].groupsToProcess[1].id} :
                 /\ g \in DOMAIN prompts
                 /\ g \in DOMAIN prompts'
                 /\ prompts'[g] = prompts[g]
     /\ \A tok \in pending, resp \in AppResponses :
          (/\ PromptItemSettlesWith(tok, resp)
           /\ Len(tasks[tok.slot].groupsToProcess) = 1
           /\ mounted
           /\ resp.ok /\ resp.text = "json")
            => LET g == tasks[tok.slot].groupsToProcess[1].id
               IN g \in DOMAIN prompts' /\ prompts'[g] = PromptData(g, 1)]_vars

\* C18 witness: the run over group 1, which had a result, has stored the new
\* one, and the result of group 2 is the old one
C18_Witness ==
  \E k \in RunSlots :
    /\ tasks[k].groupsToProcess = <<Group(1)>>
    /\ tasks[k].hadBefore = {1}
    /\ tasks[k].pc = "pause"
    /\ appState = GENERATING_PROMPTS
    /\ prompts = [g \in {1, 2} |-> PromptData(g, 2 - g)]

\* the state a confirmed reset leaves
ResetDone ==
  /\ appState = IDLE
  /\ storyboard = Null
  /\ prompts = EmptyPrompts
  /\ currentGroupId = NoGroup

\* C19: in every phase but IDLE a reset can be confirmed, and a confirmed
\* reset always leaves the phase IDLE, no bundle, an empty mapping and no
\* selected group; a reset or a regenerate-all that is declined changes nothing.
C19_Reset ==
  /\ (mounted /\ appState # IDLE) => ENABLED handleResetWith(TRUE)
  /\ ~ENABLED (handleResetWith(TRUE) /\ ~ResetDone')
  /\ ~ENABLED (handleResetWith(FALSE) /\ ~UNCHANGED vars)
  /\ ~ENABLED (handleRegenerateAllWith(FALSE) /\ ~UNCHANGED vars)

\* C19 witness: a reset was confirmed while the script was being generated
C19_Witness ==
  /\ ResetDone
  /\ \E k \in Slots : tasks[k].kind = "submit"

\* C20: a brief that is empty or only whitespace is not submitted: nothing
\* changes, so the phase stays IDLE and no call of generateStoryboard is
\* started; and every shot count that can be selected is a positive multiple
\* of the chunk size.
C20_InvalidSubmissionRejected ==
  /\ \A n \in shotOptions : n > 0 /\ n % ChunkSize = 0
  /\ \A input \in Briefs, shotCount \in ShotOptions :
       Trim(input) = <<>>
         => ~ENABLED (handleSubmit(input, shotCount) /\ ~UNCHANGED vars)

\* C20 witness: the form is on screen after a failed generation, a blank brief
\* can be submitted, and no generation is in flight
C20_Witness ==
  /\ IdeaInputEnabled
  /\ error = ScriptError
  /\ ENABLED handleSubmit(<<"nbsp", "\n">>, 4)
  /\ SubmitSlots = {}

\* the position (0-based) of the first group with the id of `group` in the
\* group list of the bundle
PositionOf(sb, group) ==
  CHOOSE i \in 0..(Len(sb[1].groups) - 1) :
    /\ sb[1].groups[i + 1].id = group.id
    /\ \A j \in 0..(i - 1) : sb[1].groups[j + 1].id # group.id

\* the elements of s at the 0-based indices lo .. hi - 1 that s has
Elements(s, lo, hi) ==
  [j \in 1..(Min(hi, Len(s)) - Min(lo, Len(s))) |-> s[lo + j]]

\* C21: while the call for a work item is awaited, the shots handed to it are
\* the elements of the script the run started with at the 0-based indices
\* (g-1)*4 .. (g-1)*4+3 for the item's group id g, and these are the
\* elements at i*4 .. i*4+3 for the position i of the group in the group list.
C21_ShotsOfGroup ==
  \A k \in RunSlots :
    tasks[k].pc = "call"
      => LET run == tasks[k]
             g == CurrentGroup(run)
             i == PositionOf(run.storyboard, g)
         IN /\ run.groupShots =
                 Elements(run.storyboard[1].script, (g.id - 1) * 4, (g.id - 1) * 4 + 4)
            /\ run.groupShots = Elements(run.storyboard[1].script, i * 4, i * 4 + 4)

\* C21, amended: while the call for a work item is awaited, the shots handed
\* to it are the elements of the script the run started with at the 0-based
\* indices (g-1)*4 .. (g-1)*4+3 for the item's group id g, as far as the
\* script has them; they are the elements at i*4 .. i*4+3 for the position i
\* of the group in the group list when g = i + 1.
C21_ShotsById ==
  \A k \in RunSlots :
    tasks[k].pc = "call"
      => LET run == tasks[k]
             g == CurrentGroup(run)
             i == PositionOf(run.storyboard, g)
         IN /\ run.groupShots =
                 Elements(run.storyboard[1].script, (g.id - 1) * 4, (g.id - 1) * 4 + 4)
            /\ g.id = i + 1
                 => run.groupShots = Elements(run.storyboard[1].script, i * 4, i * 4 + 4)

\* C21 witness: the call for the second group of a six-shot script is awaited
\* with the two shots the script has for it
C21_Witness ==
  \E k \in RunSlots :
    /\ tasks[k].pc = "call"
    /\ CurrentGroup(tasks[k]).id = 2
    /\ tasks[k].groupShots = <<Shot(5), Shot(6)>>

\* C22: the bundle that a submission with shot count s, answered with a
\* complete document, ends with in REVIEW_STORYBOARD has s / 4 groups.
C22_GroupsPerShotCount ==
  [][\A tok \in pending, resp \in AppResponses, doc \in StoryboardDocs :
       (/\ StoryboardSettlesWith(tok, resp, doc)
        /\ resp.ok /\ resp.text = "json"
        /\ mounted /\ appState' = REVIEW_STORYBOARD)
         => Len(storyboard'[1].groups) = tasks[tok.slot].shotCount \div ChunkSize]_vars

\* the groups of the bundle sb partition its script into chunks of 4, in order
Partition(sb) ==
  /\ BundleKeys \subseteq sb.present
  /\ Len(sb.script) = ChunkSize * Len(sb.groups)
  /\ \A g \in 1..Len(sb.groups) : sb.groups[g].id = g

\* C23: an edit made in REVIEW_STORYBOARD (of a setting, of a shot, or a
\* script refinement that comes back) on a generated bundle whose groups
\* partition its script leaves a bundle whose groups partition its script.
C23_EditsKeepPartition ==
  [][((SettingEdit \/ ScriptEdit) /\ appState = REVIEW_STORYBOARD
        /\ storyboard # Null /\ Partition(storyboard[1]))
       => storyboard' # Null /\ Partition(storyboard'[1])]_vars

\* C24: saving the manual edit of one field of the selected group's
\* imagePrompts sets that field and leaves the other fields of the
\* imagePrompts, the group's cameraPrompts and groupId, and the entries of
\* the other groups as they are.
C24_FieldEditFrame ==
  [][\A key \in EditKeys, editValue \in EditValues :
       saveEdit(key, editValue)
         => LET g == currentGroupId
            IN /\ DOMAIN prompts' = DOMAIN prompts
               /\ \A h \in (DOMAIN prompts) \ {g} : prompts'[h] = prompts[h]
               /\ prompts'[g].imagePrompts[key] = editValue
               /\ \A k \in ImageKeys \ {key} :
                    prompts'[g].imagePrompts[k] = prompts[g].imagePrompts[k]
               /\ prompts'[g].cameraPrompts = prompts[g].cameraPrompts
               /\ prompts'[g].groupId = prompts[g].groupId
               /\ prompts'[g].present = prompts[g].present]_vars

\* C24 witness: one field of group 1's result has been edited by hand, and
\* group 2 has its result
C24_Witness ==
  /\ edits = 1
  /\ DOMAIN prompts = {1, 2}
  /\ prompts[1].imagePrompts["shot"] = "edited"
  /\ prompts[1].imagePrompts["style"] = "generated"
  /\ prompts[2] = PromptData(2, 0)

\* the waits of a call that retried three times, in milliseconds
BackoffSchedule == <<2000, 4000, 8000>>

\* C25: a call waits 2 s, 4 s and 8 s before its second, third and fourth
\* attempt (the wait doubles from 2000 ms); no wait follows the final failed
\* attempt or a failure that is not transient; every call starts again at 2 s
\* with a fresh attempt counter, whatever the calls before it did.
C25_BackoffSchedule ==
  LET n == Len(sgcLog)
      w == Len(sgc.waited)
  IN /\ w <= maxRetries
     /\ sgc.waited = SubSeq(BackoffSchedule, 1, w)
     /\ sgc.pc = "backoff" => w = n /\ sgc.attempts = n
     /\ sgc.pc = "inflight" => w = n /\ sgc.attempts = n + 1
     /\ (sgc.pc \in {"returned", "thrown"} /\ n >= 1) => w = n - 1 /\ sgc.attempts = n
     /\ (sgc.pc = "inflight" /\ n = 0)
          => sgc.delay = 2000 /\ sgc.i = 0 /\ sgc.attempts = 1 /\ sgc.waited = <<>>

\* C25 witness: the second call of the harness has waited 2 s, 4 s and 8 s and
\* has thrown the transient error of its fourth attempt, with no fourth wait
C25_Witness ==
  /\ sgcCalls = 2
  /\ Len(sgcLog) = 4
  /\ AllTransient(sgcLog)
  /\ sgc.pc = "thrown"
  /\ sgc.waited = <<2000, 4000, 8000>>

\* the import of the exported file installs what was exported
RoundTrip ==
  /\ storyboard' = Some(exported[1].storyboard)
  /\ prompts' = exported[1].prompts
  /\ appState' = REVIEW_STORYBOARD

\* C26: export then import is a round trip: whenever a project was exported
\* and the input view is on screen, importing the exported file installs the
\* exported bundle and the exported mapping (an empty mapping included) and
\* moves the phase to REVIEW_STORYBOARD; a confirm that follows regenerates
\* only the groups the exported mapping lacks.
C26_ExportImportRoundTrip ==
  /\ (IdeaInputEnabled /\ exported # Null)
       => /\ ENABLED (handleScriptFileLoadExported /\ RoundTrip)
          /\ ~ENABLED (handleScriptFileLoadExported /\ ~RoundTrip)
  /\ (/\ StoryboardViewShown /\ exported # Null
      /\ storyboard = Some(exported[1].storyboard) /\ prompts = exported[1].prompts)
       => ~ENABLED (/\ handleConfirmStoryboard
                    /\ \E k \in Slots :
                         /\ tasks[k] = Free /\ tasks'[k].kind = "run"
                         /\ tasks'[k].groupsToProcess
                              # Missing(exported[1].storyboard.groups, exported[1].prompts))

\* C27: the import of a file that passes the shape test moves the phase to
\* REVIEW_STORYBOARD in one step, starts no upstream call and clears the
\* recorded error; a combined snapshot (storyboard and prompts) installs its
\* bundle and its mapping, a bare bundle installs the bundle and an empty
\* mapping.
C27_ImportInstalls ==
  [][\A data \in JsonFiles :
       (handleScriptUploadWith(data) /\ Accepted(data))
         => /\ appState = IDLE /\ appState' = REVIEW_STORYBOARD
            /\ error' = NoError
            /\ tasks' = tasks /\ pending' = pending
            /\ {"storyboard", "prompts"} \subseteq data.present
                 => storyboard' = Some(data.storyboard) /\ prompts' = data.prompts
            /\ BundleKeys \subseteq data.present
                 => storyboard' = Some(data.bundle) /\ prompts' = EmptyPrompts]_vars

\* C27 witness: after a submission that met a quota error, a snapshot with
\* the result of group 1 has been imported, no call is live and no error is
\* recorded
C27_Witness ==
  /\ appState = REVIEW_STORYBOARD
  /\ storyboard = Some(StoryboardData(8, 2))
  /\ prompts = [g \in {1} |-> PromptData(g, 0)]
  /\ error = NoError
  /\ quotaErrors = 1
  /\ \A k \in Slots : tasks[k] = Free

OtherType(type) == IF type = "character" THEN "scene" ELSE "character"

\* everything of the App's state but the list `type` of the settings is as it was
OnlyListChanged(type) ==
  /\ storyboard' # Null
  /\ ListOf(storyboard'[1].settings, OtherType(type))
       = ListOf(storyboard[1].settings, OtherType(type))
  /\ storyboard'[1].settings.overview = storyboard[1].settings.overview
  /\ storyboard'[1].settings.style = storyboard[1].settings.style
  /\ storyboard'[1].script = storyboard[1].script
  /\ storyboard'[1].groups = storyboard[1].groups
  /\ storyboard'[1].present = storyboard[1].present
  /\ UNCHANGED <<appState, prompts, currentGroupId, error, batchProgress>>

\* C28: handleAddSetting appends exactly one item with the placeholder content
\* at the end of the chosen list: the list grows by one, the items it had keep
\* their positions and contents, and the other list, overview, style, script
\* and groups are unchanged.
C28_AddSettingAppends ==
  [][\A type \in SettingTypes :
       handleAddSetting(type)
         => LET old == ListOf(storyboard[1].settings, type)
                new == ListOf(storyboard'[1].settings, type)
            IN /\ Len(new) = Len(old) + 1
               /\ new[Len(new)] = NewItem(type)
               /\ \A k \in 1..Len(old) : new[k] = old[k]
               /\ OnlyListChanged(type)]_vars

\* C28 witness: a character has been added to the two characters of an
\* imported project
C28_Witness ==
  /\ appState = REVIEW_STORYBOARD
  /\ storyboard # Null
  /\ storyboard[1].settings.characters
       = <<Item("hero"), Item("rival"), NewItem("character")>>
  /\ storyboard[1].settings.scenes = <<Item("street")>>
  /\ edits = 1

\* C29: handleDeleteSetting with an index in range removes exactly the item
\* at that index of the chosen list, the other items keep their order and
\* contents, and the other list, overview, style, script and groups are
\* unchanged; handleUpdateSetting with an index in range changes only the
\* named field of the item at that index.
C29_DeleteAndUpdateSetting ==
  [][/\ \A type \in SettingTypes, index \in 0..MaxEdits :
          (handleDeleteSetting(type, index)
             /\ index < Len(ListOf(storyboard[1].settings, type)))
            => LET old == ListOf(storyboard[1].settings, type)
                   new == ListOf(storyboard'[1].settings, type)
               IN /\ Len(new) = Len(old) - 1
                  /\ \A k \in 1..Len(new) :
                       new[k] = IF k <= index THEN old[k] ELSE old[k + 1]
                  /\ OnlyListChanged(type)
     /\ \A type \in SettingTypes, index \in 0..MaxEdits, field \in ItemFields,
           value \in EditValues :
          (handleUpdateSetting(type, index, field, value)
             /\ index < Len(ListOf(storyboard[1].settings, type)))
            => LET old == ListOf(storyboard[1].settings, type)
                   new == ListOf(storyboard'[1].settings, type)
               IN /\ Len(new) = Len(old)
                  /\ \A k \in 1..Len(old) : k # index + 1 => new[k] = old[k]
                  /\ new[index + 1][field] = value
                  /\ \A f \in ItemFields \ {field} :
                       new[index + 1][f] = old[index + 1][f]
                  /\ OnlyListChanged(type)]_vars

\* C29 witness: of the two characters of an imported project, the second has
\* been renamed and then the first has been deleted
C29_Witness ==
  /\ appState = REVIEW_STORYBOARD
  /\ storyboard # Null
  /\ storyboard[1].settings.characters = <<[Item("rival") EXCEPT !.name = "edited"]>>
  /\ storyboard[1].settings.scenes = <<Item("street")>>
  /\ edits = 2

\* C30: while a run is live, BatchProgress, the mapping and the selected group
\* are changed by the steps of the queue loop only: a group selection, a
\* prompt edit, the completion of an AI refinement or a reset made meanwhile
\* changes none of them, and so the selected group is the group of the item
\* whose generation call is in flight.
C30_OnlyQueueMutates ==
  /\ [][(RunSlots # {} /\ (handleSelectGroup \/ PromptEdit \/ handleReset))
          => UNCHANGED <<batchProgress, prompts, currentGroupId>>]_vars
  /\ [](\A k \in RunSlots :
          tasks[k].pc = "call" => currentGroupId = CurrentGroup(tasks[k]).id)

\* C31: for each item of a run the steps come in this order: the selected
\* group is set to the item's group with the step that invokes its generation
\* call; the step that publishes the advanced BatchProgress has the result of
\* a successful item in the mapping and starts the pause; the pause follows
\* every item, failed and last ones included; and the run clears
\* BatchProgress and sets VIEW_PROMPTS only with the end of the pause of its
\* last item, after {N, N} was published.
C31_ItemStepOrder ==
  [][\A k \in Slots :
       LET run == tasks[k]
           next == tasks'[k]
       IN /\ \A tok \in pending' \ pending :
               (tok.slot = k /\ next.kind = "run" /\ tok.attempt = 1 /\ mounted)
                 => currentGroupId' = next.groupsToProcess[tok.item + 1].id
          /\ (run.kind = "run" /\ run.pc = "call" /\ next # run
                /\ ~(next.kind = "run" /\ next.pc = "call" /\ next.i = run.i))
               => /\ next.kind = "run"
                  /\ next.pc = "pause"
                  /\ next.i = run.i
                  /\ next.timer = PauseMs
                  /\ Last(next.published) = Progress(run.i + 1, Len(run.groupsToProcess))
                  /\ mounted => batchProgress' = Last(next.published)
                  /\ (mounted /\ CurrentGroup(run).id \in next.succeeded)
                       => CurrentGroup(run).id \in DOMAIN prompts'
          /\ (run.kind = "run" /\ next = Free)
               => /\ run.pc = "pause"
                  /\ run.i + 1 = Len(run.groupsToProcess)
                  /\ Last(run.published)
                       = Progress(Len(run.groupsToProcess), Len(run.groupsToProcess))
                  /\ mounted => batchProgress' = Null /\ appState' = VIEW_PROMPTS
          /\ (run.kind = "run" /\ mounted /\ batchProgress # Null /\ batchProgress' = Null
                /\ next.kind = "run")
               => next = run]_vars

\* C31 witness: a run over two items has stored the result of its second
\* item, published {2, 2} and is in the pause after it
C31_Witness ==
  \E k \in RunSlots :
    /\ Len(tasks[k].groupsToProcess) = 2
    /\ tasks[k].i = 1
    /\ tasks[k].pc = "pause"
    /\ tasks[k].groupsToProcess[2].id \in tasks[k].succeeded
    /\ tasks[k].groupsToProcess[2].id \in DOMAIN prompts
    /\ batchProgress = Progress(2, 2)
    /\ appState = GENERATING_PROMPTS

\* C32: in every reachable state each entry of the mapping stored under the
\* key k has the groupId k, and k is the id of a group of the stored bundle.
C32_EntriesMatchGroups ==
  \A k \in DOMAIN prompts :
    /\ "groupId" \in prompts[k].present
    /\ prompts[k].groupId = k
    /\ storyboard # Null
    /\ k \in GroupIds(storyboard[1].groups)

\* C33: when a run over the single group g completes, g has a result if it
\* had one before the run (a failed regeneration keeps the previous result),
\* and g is without a result only if it had none before the run and its
\* generation failed.
C33_FailedRegenerateKeepsResult ==
  [][\A k \in RunSlots :
       (tasks'[k] = Free /\ Len(tasks[k].groupsToProcess) = 1)
         => LET g == tasks[k].groupsToProcess[1].id
            IN /\ g \in tasks[k].hadBefore => g \in DOMAIN prompts'
               /\ g \notin DOMAIN prompts'
                    => g \notin tasks[k].hadBefore /\ g \notin tasks[k].succeeded]_vars

\* C34: reset is durable: from the state a confirmed reset leaves (IDLE, no
\* bundle, an empty mapping, no selection, no error recorded since), every
\* step that is not a submission or an import keeps the phase IDLE, the
\* bundle absent, the mapping empty and the selection none, the completion of
\* a script generation or of a queue item that was in flight included.
C34_ResetIsDurable ==
  [][(/\ appState = IDLE /\ storyboard = Null /\ prompts = EmptyPrompts
      /\ currentGroupId = NoGroup /\ error = NoError
      /\ ~(handleIdeaSubmit \/ handleScriptUpload))
       => /\ appState' = IDLE /\ storyboard' = Null /\ prompts' = EmptyPrompts
          /\ currentGroupId' = NoGroup]_vars

\* C35: in every reachable state every entry of the mapping is a complete
\* prompt result, with a groupId, a cameraPrompts and an imagePrompts, also
\* when the update of an AI refinement or of a manual edit is applied after
\* the entry of its group was cleared or replaced.
C35_EntriesComplete ==
  \A k \in DOMAIN prompts : TopKeys \subseteq prompts[k].present

\* C36: in every reachable state BatchProgress is present exactly if the
\* phase is GENERATING_PROMPTS, and when present 0 <= current <= total.
C36_ProgressIffGenerating ==
  /\ batchProgress # Null <=> appState = GENERATING_PROMPTS
  /\ batchProgress # Null
       => 0 <= batchProgress[1].current /\ batchProgress[1].current <= batchProgress[1].total

\* C37: the import of a JSON file that passes the shape test stores a bundle
\* that has script, groups and settings; a file with a storyboard that has a
\* script and with no prompts stores that inner storyboard as the bundle.
C37_ImportStoresBundle ==
  [][\A data \in JsonFiles :
       (handleScriptUploadWith(data) /\ Accepted(data))
         => /\ storyboard' # Null
            /\ BundleKeys \subseteq storyboard'[1].present
            /\ ("storyboard" \in data.present /\ "prompts" \notin data.present)
                 => storyboard' = Some(data.storyboard)]_vars

\* a call that has ended made between 1 and 4 attempts and has returned the
\* first successful response or thrown the error of its last attempt
EndedAfterAttempts ==
  sgc.pc \in {"returned", "thrown"}
    => LET n == Len(sgcLog)
       IN /\ 1 <= n /\ n <= maxRetries + 1
          /\ sgc.attempts = n
          /\ sgc.result = sgcLog[n]
          /\ sgc.pc = "returned" <=> sgcLog[n].ok
          /\ \A j \in 1..(n - 1) : ~sgcLog[j].ok
          /\ sgc.result # Rejected(FallbackError)

\* C38 as stated: for every sequence of upstream outcomes a call of
\* safeGenerateContent ends, after at least 1 and at most 4 attempts, by
\* returning the first successful response or throwing the error of its last
\* attempt, and never throws the fallback error.
C38_CallEnds ==
  /\ [](EndedAfterAttempts /\ sgc.attempts <= maxRetries + 1)
  /\ (sgc.pc \in {"inflight", "backoff"}) ~> (sgc.pc \in {"returned", "thrown"})

\* C38 amended: with the API key configured, for every sequence of upstream
\* outcomes a call ends, after at least 1 and at most 4 attempts, by returning
\* the first successful response or throwing the error of its last attempt,
\* and never throws the fallback error; without the key a call throws the
\* configuration error before any attempt.
C38_CallEndsWithKey ==
  /\ [](sgcKey => EndedAfterAttempts)
  /\ [](sgc.attempts <= maxRetries + 1)
  /\ [](~sgcKey /\ sgc.pc # "none"
          => sgc.pc = "thrown" /\ sgc.attempts = 0 /\ sgcLog = <<>>
             /\ sgc.result = Rejected(ApiKeyError))
  /\ (sgc.pc \in {"inflight", "backoff"}) ~> (sgc.pc \in {"returned", "thrown"})

\* C38 witness: a call has returned the response of its fourth attempt after
\* three transient failures
C38_Witness ==
  /\ sgcKey
  /\ sgc.pc = "returned"
  /\ Len(sgcLog) = 4
  /\ AllTransient(SubSeq(sgcLog, 1, 3))
  /\ sgc.attempts = 4

\* both setting lists are as they were
ListsUnchanged ==
  /\ storyboard' # Null
  /\ storyboard'[1].settings.characters = storyboard[1].settings.characters
  /\ storyboard'[1].settings.scenes = storyboard[1].settings.scenes

====
